---- MODULE Spec2Model ----
(***************************************************************************)
(* Model of the scheduling engine of Grafiki-automat (src/scheduler):      *)
(* calendar_pl, demand.build_demands, the hard-constraint builders of      *)
(* constraints_hard, the auxiliary variables and the objective of          *)
(* constraints_soft, and solver.solve_schedule.  The CP-SAT solver is      *)
(* modelled by its contract: OPTIMAL with a solution of least objective,   *)
(* FEASIBLE with any solution, INFEASIBLE when there is none, or UNKNOWN.  *)
(*                                                                         *)
(* A date is modelled by its proleptic Gregorian ordinal (the order and    *)
(* the differences of datetime.date), a time of day by its minutes since   *)
(* midnight, a dict by the sequence of its values in insertion order.      *)
(* List and enumerate indices are 1-based here and 0-based in the source.  *)
(***************************************************************************)
EXTENDS Integers, Sequences, FiniteSets, TLC

VARIABLES employees, shifts, demands, settings, pc, days, variables, constraints,
          aux_vars, status, solution, result, call, ret

vars == <<employees, shifts, demands, settings, pc, days, variables, constraints,
          aux_vars, status, solution, result, call, ret>>

\* Optional values: None, or Some(v)
None == <<>>
Some(v) == <<v>>

\* "no filter" of the keyword arguments of _find_shifts
NoFilter == "NoFilter"

ELEKTRORADIOLOG == "ELEKTRORADIOLOG"
PIELEGNIARKA == "PIELEGNIARKA"

MINUTES_PER_HOUR == 60
MinutesPerDay == 24 * MINUTES_PER_HOUR

(***************************************************************************)
(* Generic helpers.                                                        *)
(***************************************************************************)
Range(seq) == {seq[i] : i \in DOMAIN seq}

SetMax(S) == CHOOSE m \in S : \A n \in S : n <= m

SetMin(S) == CHOOSE m \in S : \A n \in S : m <= n

RECURSIVE SortedSeq(_)
\* sorted(S) for a finite set S of integers (dates)
SortedSeq(S) ==
    IF S = {} THEN <<>>
    ELSE LET m == SetMin(S) IN <<m>> \o SortedSeq(S \ {m})

RECURSIVE SeqSum(_)
SeqSum(seq) == IF seq = <<>> THEN 0 ELSE Head(seq) + SeqSum(Tail(seq))

RECURSIVE FlattenSeq(_)
FlattenSeq(seqs) ==
    IF seqs = <<>> THEN <<>> ELSE Head(seqs) \o FlattenSeq(Tail(seqs))

\* Python's order on the strings used as shift codes and employee ids
\* (code-point order), as the position in their sorted enumeration.
SortedStrings ==
    <<"E1", "E2", "E3", "E4", "ER_24", "MR_A", "MR_D", "N1", "N2", "N3", "N4", "P_24", "P_D", "P_N",
      "TK_A", "TK_D", "TK_N">>

StrRank(s) == CHOOSE i \in DOMAIN SortedStrings : SortedStrings[i] = s

StrLess(a, b) == StrRank(a) < StrRank(b)

(***************************************************************************)
(* datetime.date: ordinals, weekday, year.                                 *)
(***************************************************************************)
IsLeap(year) == year % 4 = 0 /\ (year % 100 # 0 \/ year % 400 = 0)

DaysInMonth(year, month) ==
    IF month = 2 THEN (IF IsLeap(year) THEN 29 ELSE 28)
    ELSE IF month \in {4, 6, 9, 11} THEN 30 ELSE 31

DaysBeforeYear(year) ==
    LET y == year - 1 IN y * 365 + (y \div 4) - (y \div 100) + (y \div 400)

RECURSIVE DaysBeforeMonth(_, _)
DaysBeforeMonth(year, month) ==
    IF month = 1 THEN 0
    ELSE DaysBeforeMonth(year, month - 1) + DaysInMonth(year, month - 1)

\* date(year, month, day) as an ordinal; 0001-01-01 is 1
Date(year, month, day) == DaysBeforeYear(year) + DaysBeforeMonth(year, month) + day

\* date.weekday(): Monday is 0, Sunday is 6
Weekday(day) == (day + 6) % 7

\* date.year
YearOf(day) ==
    LET guess == ((day * 400) \div 146097) + 1
    IN  CHOOSE y \in (guess - 1)..(guess + 1) :
            /\ y >= 1
            /\ Date(y, 1, 1) <= day
            /\ day < Date(y + 1, 1, 1)

(***************************************************************************)
(* calendar_pl                                                             *)
(***************************************************************************)
\* _easter_sunday(year): Anonymous Gregorian algorithm
EasterSunday(year) ==
    LET a == year % 19
        b == year \div 100
        c == year % 100
        d == b \div 4
        e == b % 4
        f == (b + 8) \div 25
        g == (b - f + 1) \div 3
        h == (19 * a + b - d - g + 15) % 30
        i == c \div 4
        k == c % 4
        l == (32 + 2 * e + 2 * i - h - k) % 7
        m == (a + 11 * h + 22 * l) \div 451
        month == (h + l - 7 * m + 114) \div 31
        day == ((h + l - 7 * m + 114) % 31) + 1
    IN  Date(year, month, day)

\* polish_holidays without Corpus Christi
polish_holidays_no_corpus_christi(year) ==
    LET fixed == {Date(year, 1, 1), Date(year, 1, 6), Date(year, 5, 1),
                  Date(year, 5, 3), Date(year, 8, 15), Date(year, 11, 1),
                  Date(year, 11, 11), Date(year, 12, 25), Date(year, 12, 26)}
        easter == EasterSunday(year)
        movable == {easter, easter + 1, easter + 49}
    IN  fixed \cup movable

polish_holidays(year) ==
    LET fixed == {Date(year, 1, 1), Date(year, 1, 6), Date(year, 5, 1),
                  Date(year, 5, 3), Date(year, 8, 15), Date(year, 11, 1),
                  Date(year, 11, 11), Date(year, 12, 25), Date(year, 12, 26)}
        easter == EasterSunday(year)
        movable == {easter, easter + 1, easter + 49, easter + 60}
    IN  fixed \cup movable

is_weekend(day) == Weekday(day) >= 5

is_holiday(day) == day \in polish_holidays(YearOf(day))

\* a string as the sequence of its characters
DIGITS == <<"0", "1", "2", "3", "4", "5", "6", "7", "8", "9">>

\* int(text) for a string of decimal digits
RECURSIVE int(_)
int(text) ==
    IF text = <<>> THEN 0
    ELSE int(SubSeq(text, 1, Len(text) - 1)) * 10
         + (CHOOSE d \in 0..9 : DIGITS[d + 1] = text[Len(text)])

\* year_str, month_str = ym.split("-", 1), and the two parsed with int()
ParseYearMonth(ym) ==
    LET dash == CHOOSE i \in DOMAIN ym :
                    ym[i] = "-" /\ \A j \in 1..(i - 1) : ym[j] # "-"
    IN  <<int(SubSeq(ym, 1, dash - 1)), int(SubSeq(ym, dash + 1, Len(ym)))>>

\* month_days whose loop stops one day early
month_days_short(ym) ==
    LET year == ym[1]
        month == ym[2]
        first == Date(year, month, 1)
        next_month == IF month = 12 THEN Date(year + 1, 1, 1)
                      ELSE Date(year, month + 1, 1)
    IN  [i \in 1..(next_month - first - 1) |-> first + (i - 1)]

\* month_days for the parsed <<year, month>>
month_days(ym) ==
    LET year == ym[1]
        month == ym[2]
        first == Date(year, month, 1)
        next_month == IF month = 12 THEN Date(year + 1, 1, 1)
                      ELSE Date(year, month + 1, 1)
    IN  [i \in 1..(next_month - first) |-> first + (i - 1)]

(***************************************************************************)
(* domain: the typed records the core consumes.                            *)
(***************************************************************************)
\* Hours (float) are held in ten-thousandths of an hour, etat in quarters.
HoursUnit == 10000
EtatUnit == 4

Hours(h) == h * HoursUnit

\* Employee: name is imie_nazwisko; etat, cel_godz_miesiac, min_godz_miesiac
\* and max_godz_miesiac are None or Some(value)
Employee(id, grupa, typ_umowy, etat, moze_24h, pn_pt, skills, cel_godz_miesiac, auto_target, min_godz_miesiac, max_godz_miesiac) ==
    [id |-> id, name |-> id, grupa |-> grupa, typ_umowy |-> typ_umowy,
     etat |-> etat, moze_24h |-> moze_24h, pn_pt |-> pn_pt, skills |-> skills,
     cel_godz_miesiac |-> cel_godz_miesiac, auto_target |-> auto_target,
     min_godz_miesiac |-> min_godz_miesiac, max_godz_miesiac |-> max_godz_miesiac]

\* ContractType = Literal["UOP", "B2B", "ZLECENIE"]
ContractType == {"UOP", "B2B", "ZLECENIE"}

\* a raw value of a field: a text or a number
Str(text) == [kind |-> "str", text |-> text, value |-> 0]

Num(value) == [kind |-> "num", text |-> "", value |-> value]

\* text.strip().upper() for the texts of the inputs
StripUpper(text) ==
    CASE text = " auto " -> "AUTO"
      [] text = "brak" -> "BRAK"
      [] OTHER -> text

\* float(text.replace(",", ".")): None stands for the ValueError of float()
ParseFloat(text) == IF text = "80,5" THEN Some(Hours(80) + (HoursUnit \div 2)) ELSE None

\* the texts of the group labels
ELEKTRORADIOLOG_TEXT ==
    <<"e", "l", "e", "k", "t", "r", "o", "r", "a", "d", "i", "o", "l", "o", "g">>

ER_TEXT == <<"e", "r">>

PIELEGNIARKA_TEXT == <<"p", "i", "e", "l", "e", "g", "n", "i", "a", "r", "k", "a">>

PIELEGNIARKA_OGONEK_TEXT == <<"p", "i", "e", "l", "e_ogonek", "g", "n", "i", "a", "r", "k", "a">>

PIELEGNIARKI_OGONEK_TEXT == <<"p", "i", "e", "l", "e_ogonek", "g", "n", "i", "a", "r", "k", "i">>

PIEL_TEXT == <<"p", "i", "e", "l">>

\* a raw value of the group: a member of Group, or a text as the sequence of
\* its characters (e_ogonek and E_OGONEK stand for the letter e with ogonek)
Member(group) == [kind |-> "group", group |-> group, chars |-> <<>>]

Label(chars) == [kind |-> "str", group |-> "", chars |-> chars]

LOWER ==
    <<"a", "b", "c", "d", "e", "f", "g", "h", "i", "j", "k", "l", "m", "n", "o", "p", "q",
      "r", "s", "t", "u", "v", "w", "x", "y", "z", "e_ogonek">>

UPPER ==
    <<"A", "B", "C", "D", "E", "F", "G", "H", "I", "J", "K", "L", "M", "N", "O", "P", "Q",
      "R", "S", "T", "U", "V", "W", "X", "Y", "Z", "E_OGONEK">>

\* str.casefold() on the letters above
casefold(chars) ==
    [i \in DOMAIN chars |->
        IF \E k \in DOMAIN UPPER : UPPER[k] = chars[i]
        THEN LOWER[CHOOSE k \in DOMAIN UPPER : UPPER[k] = chars[i]]
        ELSE chars[i]]

\* str.strip()
RECURSIVE strip(_)
strip(chars) ==
    IF chars = <<>> THEN chars
    ELSE IF Head(chars) = " " THEN strip(Tail(chars))
    ELSE IF chars[Len(chars)] = " " THEN strip(SubSeq(chars, 1, Len(chars) - 1))
    ELSE chars

\* the mapping of normalize_group, in insertion order: <<text, group>>
GROUP_MAPPING ==
    <<<<ELEKTRORADIOLOG_TEXT, ELEKTRORADIOLOG>>,
      <<ER_TEXT, ELEKTRORADIOLOG>>,
      <<PIELEGNIARKA_OGONEK_TEXT, PIELEGNIARKA>>,
      <<PIELEGNIARKI_OGONEK_TEXT, PIELEGNIARKA>>,
      <<PIEL_TEXT, PIELEGNIARKA>>>>

\* group.value.casefold() for the members of Group, in definition order
GROUP_VALUES ==
    <<<<ELEKTRORADIOLOG_TEXT, ELEKTRORADIOLOG>>, <<PIELEGNIARKA_TEXT, PIELEGNIARKA>>>>

\* normalize_group(value); None stands for Python's None
normalize_group(value) ==
    IF value = None THEN [raised |-> Some("Grupa jest wymagana"), value |-> None]
    ELSE IF value[1].kind = "group" THEN [raised |-> None, value |-> Some(value[1].group)]
    ELSE LET text == casefold(strip(value[1].chars))
         IN  IF \E k \in DOMAIN GROUP_MAPPING : GROUP_MAPPING[k][1] = text
             THEN [raised |-> None,
                   value |-> Some(GROUP_MAPPING[CHOOSE k \in DOMAIN GROUP_MAPPING :
                                                    GROUP_MAPPING[k][1] = text][2])]
             ELSE IF \E k \in DOMAIN GROUP_VALUES : GROUP_VALUES[k][1] = text
             THEN [raised |-> None,
                   value |-> Some(GROUP_VALUES[CHOOSE k \in DOMAIN GROUP_VALUES :
                                                   GROUP_VALUES[k][1] = text][2])]
             ELSE [raised |-> Some("Nieprawidlowa grupa"), value |-> None]

\* _parse_bool for a bool or None
_parse_bool(value) == IF value = None THEN FALSE ELSE value[1]

\* Employee._inject_auto_target (mode="before")
_inject_auto_target(values) ==
    LET raw == values.cel_godz_miesiac
    IN  IF raw # None /\ raw[1].kind = "str" /\ StripUpper(raw[1].text) = "AUTO"
        THEN [values EXCEPT !.auto_target = TRUE]
        ELSE values

\* Employee._build_skills (mode="before"); data holds the fields validated so
\* far, among which there is no MR and no TK
_build_skills(value, data) ==
    IF value # None THEN value[1]
    ELSE LET mr == _parse_bool(None)
             tk == _parse_bool(None)
         IN  (IF data.grupa = Some(ELEKTRORADIOLOG)
              THEN (IF mr THEN {"MR"} ELSE {}) \cup (IF tk THEN {"TK"} ELSE {})
                   \cup (IF mr /\ tk THEN {"ALL"} ELSE {})
              ELSE {})
             \cup (IF data.grupa = Some(PIELEGNIARKA) THEN {"ZDO"} ELSE {})

\* Employee._parse_target (mode="before")
_parse_target(value) ==
    IF value = None THEN [raised |-> None, value |-> None]
    ELSE IF value[1].kind = "num" THEN [raised |-> None, value |-> Some(value[1].value)]
    ELSE IF StripUpper(value[1].text) = "AUTO" THEN [raised |-> None, value |-> None]
    ELSE LET parsed == ParseFloat(StripUpper(value[1].text))
         IN  IF parsed = None
             THEN [raised |-> Some("could not convert string to float"), value |-> None]
             ELSE [raised |-> None, value |-> parsed]

\* Employee._validate_contract (mode="after")
_validate_contract(self) ==
    IF self.typ_umowy = "UOP" /\ self.etat = None
    THEN [raised |-> Some("UOP wymaga etatu"), value |-> None]
    ELSE IF self.grupa = ELEKTRORADIOLOG /\ self.skills = {}
    THEN [raised |-> Some("Brak kwalifikacji MR/TK dla ELEKTRORADIOLOG"), value |-> None]
    ELSE [raised |-> None,
          value |-> Some(IF self.auto_target THEN [self EXCEPT !.cel_godz_miesiac = None]
                         ELSE self)]

\* Employee.model_validate(values): the before-validator, the fields in the
\* order of their declaration, then the after-validator; the errors of the
\* fields are reported together and keep the after-validator from running
Employee_model_validate(values) ==
    LET injected == _inject_auto_target(values)
        grupa == normalize_group(injected.grupa)
        skills == _build_skills(injected.skills, [grupa |-> grupa.value])
        target == _parse_target(injected.cel_godz_miesiac)
        errors == (IF grupa.raised # None THEN <<grupa.raised[1]>> ELSE <<>>)
                  \o (IF injected.typ_umowy \notin ContractType
                      THEN <<"Input should be 'UOP', 'B2B' or 'ZLECENIE'">> ELSE <<>>)
                  \o (IF target.raised # None THEN <<target.raised[1]>> ELSE <<>>)
    IN  IF errors # <<>> THEN [raised |-> Some(errors), value |-> None]
        ELSE LET checked == _validate_contract(
                     Employee(injected.id, grupa.value[1], injected.typ_umowy, injected.etat,
                              _parse_bool(injected.moze_24h), _parse_bool(injected.pn_pt),
                              skills, target.value, injected.auto_target, None, None))
             IN  IF checked.raised # None
                 THEN [raised |-> Some(<<checked.raised[1]>>), value |-> None]
                 ELSE checked

\* ShiftType(shift_code, grupa, modalnosc, start, koniec, czas_h, czy_24h)
ShiftType(code, grupa, modalnosc, start_time, end_time, duration_h, is_24h) ==
    [code |-> code, grupa |-> grupa, modalnosc |-> modalnosc,
     start_time |-> start_time, end_time |-> end_time,
     duration_h |-> duration_h, is_24h |-> is_24h]

\* Settings(wagi_miekkie): a dict from weight names to weights
Settings(wagi_miekkie) == [wagi_miekkie |-> wagi_miekkie]

\* Settings(): the default weights
DefaultSettings ==
    Settings([max_hours |-> 1000, min_hours |-> 500, target_hours |-> 100,
              weekly_48h |-> 500, balance |-> 50])

Demand(date, shift_code, min_staff, target_staff, required_modalnosc, grupa) ==
    [date |-> date, shift_code |-> shift_code, min_staff |-> min_staff,
     target_staff |-> target_staff, required_modalnosc |-> required_modalnosc,
     grupa |-> grupa]

Assignment(date, shift_code, employee_id, name) ==
    [date |-> date, shift_code |-> shift_code, employee_id |-> employee_id,
     name |-> name]

SolveResult(feasible, assignments, report) ==
    [feasible |-> feasible, assignments |-> assignments, report |-> report]

\* shifts[code] and shifts.keys() of the catalog dict
ShiftByCode(catalog, code) ==
    catalog[CHOOSE i \in DOMAIN catalog : catalog[i].code = code]

ShiftCodes(catalog) == [i \in DOMAIN catalog |-> catalog[i].code]

(***************************************************************************)
(* constraints_hard.eligible_for_shift                                     *)
(***************************************************************************)
\* eligible_for_shift without the test of moze_24h
eligible_for_shift_any_24h(employee, shift) ==
    IF employee.grupa # shift.grupa THEN FALSE
    ELSE IF shift.modalnosc = "MR" /\ "MR" \notin employee.skills THEN FALSE
    ELSE IF shift.modalnosc = "TK" /\ "TK" \notin employee.skills THEN FALSE
    ELSE IF shift.modalnosc = "ZDO" /\ "ZDO" \notin employee.skills THEN FALSE
    ELSE IF shift.modalnosc = "ALL" /\ employee.grupa # ELEKTRORADIOLOG THEN FALSE
    ELSE TRUE

eligible_for_shift(employee, shift) ==
    IF employee.grupa # shift.grupa THEN FALSE
    ELSE IF shift.is_24h /\ ~employee.moze_24h THEN FALSE
    ELSE IF shift.modalnosc = "MR" /\ "MR" \notin employee.skills THEN FALSE
    ELSE IF shift.modalnosc = "TK" /\ "TK" \notin employee.skills THEN FALSE
    ELSE IF shift.modalnosc = "ZDO" /\ "ZDO" \notin employee.skills THEN FALSE
    ELSE IF shift.modalnosc = "ALL" /\ employee.grupa # ELEKTRORADIOLOG THEN FALSE
    ELSE TRUE

(***************************************************************************)
(* demand.build_demands                                                    *)
(***************************************************************************)
RECURSIVE SortByStart(_)
\* sorted(result, key=start_time): stable, ties keep the order of the list
SortByStart(seq) ==
    IF seq = <<>> THEN <<>>
    ELSE LET m == SetMin({seq[i].start_time : i \in DOMAIN seq})
             i == SetMin({j \in DOMAIN seq : seq[j].start_time = m})
         IN  <<seq[i]>> \o SortByStart(SubSeq(seq, 1, i - 1) \o
                                        SubSeq(seq, i + 1, Len(seq)))

\* _find_shifts; modalnosc = NoFilter (None in the source) means "no filter",
\* is_24h is the set of accepted values of shift.is_24h
_find_shifts(catalog, grupa, modalnosc, is_24h) ==
    SortByStart(SelectSeq(catalog, LAMBDA shift :
        /\ shift.grupa = grupa
        /\ (modalnosc # NoFilter => shift.modalnosc = modalnosc)
        /\ shift.is_24h \in is_24h))

DemandFor(day, shift, min_staff, target_staff) ==
    Demand(day, shift.code, min_staff, target_staff, shift.modalnosc, shift.grupa)

\* DayDemands that takes the first TK shift for the night line as well
DayDemands_first_tk(day, er_24h, er_mr, er_tk, nurse_shifts) ==
    (IF is_weekend(day) \/ is_holiday(day)
     THEN <<DemandFor(day, er_24h[1], 1, 1)>>
     ELSE <<DemandFor(day, er_mr[1], 1, 2),
            DemandFor(day, er_tk[1], 1, 1),
            DemandFor(day, er_tk[1], 1, 1)>>)
    \o <<DemandFor(day, nurse_shifts[1], 1, 1),
         DemandFor(day, nurse_shifts[Len(nurse_shifts)], 1, 1)>>

\* the demand lines build_demands appends for one day
DayDemands(day, er_24h, er_mr, er_tk, nurse_shifts) ==
    (IF is_weekend(day) \/ is_holiday(day)
     THEN <<DemandFor(day, er_24h[1], 1, 1)>>
     ELSE <<DemandFor(day, er_mr[1], 1, 2),
            DemandFor(day, er_tk[1], 1, 1),
            DemandFor(day, er_tk[Len(er_tk)], 1, 1)>>)
    \o <<DemandFor(day, nurse_shifts[1], 1, 1),
         DemandFor(day, nurse_shifts[Len(nurse_shifts)], 1, 1)>>

\* build_demands that asks for one TK shift only
build_demands_one_tk(month, catalog) ==
    LET mdays == month_days(month)
        er_24h == _find_shifts(catalog, ELEKTRORADIOLOG, NoFilter, {TRUE})
        er_mr == _find_shifts(catalog, ELEKTRORADIOLOG, "MR", {FALSE})
        er_tk == _find_shifts(catalog, ELEKTRORADIOLOG, "TK", {FALSE})
        nurse_shifts == _find_shifts(catalog, PIELEGNIARKA, "ZDO", {FALSE})
        Raise(msg) == [raised |-> Some(msg), demands |-> <<>>]
    IN  IF er_24h = <<>> THEN Raise("Brak zmiany 24h dla ELEKTRORADIOLOG")
        ELSE IF er_mr = <<>> THEN Raise("Brak zmiany dziennej MR dla ELEKTRORADIOLOG")
        ELSE IF Len(er_tk) < 1 THEN Raise("Brak zmian dziennych/nocnych TK dla ELEKTRORADIOLOG")
        ELSE IF Len(nurse_shifts) < 2 THEN Raise("Brak zmian dziennych/nocnych ZDO dla PIELEGNIARKA")
        ELSE [raised |-> None,
              demands |-> FlattenSeq([i \in DOMAIN mdays |->
                 DayDemands(mdays[i], er_24h, er_mr, er_tk, nurse_shifts)])]

\* build_demands(month, shifts): the demand list, or the ValueError raised
build_demands(month, catalog) ==
    LET mdays == month_days(month)
        er_24h == _find_shifts(catalog, ELEKTRORADIOLOG, NoFilter, {TRUE})
        er_mr == _find_shifts(catalog, ELEKTRORADIOLOG, "MR", {FALSE})
        er_tk == _find_shifts(catalog, ELEKTRORADIOLOG, "TK", {FALSE})
        nurse_shifts == _find_shifts(catalog, PIELEGNIARKA, "ZDO", {FALSE})
        Raise(msg) == [raised |-> Some(msg), demands |-> <<>>]
    IN  IF er_24h = <<>> THEN Raise("Brak zmiany 24h dla ELEKTRORADIOLOG")
        ELSE IF er_mr = <<>> THEN Raise("Brak zmiany dziennej MR dla ELEKTRORADIOLOG")
        ELSE IF Len(er_tk) < 2 THEN Raise("Brak zmian dziennych/nocnych TK dla ELEKTRORADIOLOG")
        ELSE IF Len(nurse_shifts) < 2 THEN Raise("Brak zmian dziennych/nocnych ZDO dla PIELEGNIARKA")
        ELSE [raised |-> None,
              demands |-> FlattenSeq([i \in DOMAIN mdays |->
                 DayDemands(mdays[i], er_24h, er_mr, er_tk, nurse_shifts)])]

(***************************************************************************)
(* constraints_hard: decision variables and hard constraints.              *)
(* A decision variable is its key <<e_idx, d_idx, shift_code>>; a linear   *)
(* constraint sum(vs) >= rhs or sum(vs) <= rhs over 0/1 variables is the   *)
(* record [op, vs, rhs]; the model (model.add) is the set of constraints.  *)
(***************************************************************************)
MIN_REST_HOURS == 11
MAX_DAYS == 6
DAYS_OF_24H_SHIFT == 24

AtLeast(vs, rhs) == [op |-> "ge", vs |-> vs, rhs |-> rhs]

AtMost(vs, rhs) == [op |-> "le", vs |-> vs, rhs |-> rhs]

DayIndex(dayList, date) == CHOOSE idx \in DOMAIN dayList : dayList[idx] = date

\* _collect_days(demands)
_collect_days(dems) == SortedSeq({dems[i].date : i \in DOMAIN dems})

\* build_decision_vars without the eligibility test
build_decision_vars_unfiltered(emps, dayList, catalog) ==
    {<<t[1], t[2], catalog[t[3]].code>> :
        t \in (DOMAIN emps) \X (DOMAIN dayList) \X (DOMAIN catalog)}

build_decision_vars(emps, dayList, catalog) ==
    {<<e_idx, d_idx, catalog[s].code>> :
        <<e_idx, d_idx, s>> \in
            {t \in (DOMAIN emps) \X (DOMAIN dayList) \X (DOMAIN catalog) :
                eligible_for_shift(emps[t[1]], catalog[t[3]])}}

\* the coverage constraint asking for one employee whatever min_staff is
CoverageConstraint_one(demand, dayList, emps, catalog, xs) ==
    LET d_idx == DayIndex(dayList, demand.date)
        shift == ShiftByCode(catalog, demand.shift_code)
        eligible_vars == {<<e_idx, d_idx, demand.shift_code>> : e_idx \in
            {e \in DOMAIN emps :
                /\ eligible_for_shift(emps[e], shift)
                /\ <<e, d_idx, demand.shift_code>> \in xs}}
    IN  AtLeast(eligible_vars, 1)

\* the constraint add_min_coverage adds for one demand line; with no
\* eligible variable it is 0 >= min_staff
CoverageConstraint(demand, dayList, emps, catalog, xs) ==
    LET d_idx == DayIndex(dayList, demand.date)
        shift == ShiftByCode(catalog, demand.shift_code)
        eligible_vars == {<<e_idx, d_idx, demand.shift_code>> : e_idx \in
            {e \in DOMAIN emps :
                /\ eligible_for_shift(emps[e], shift)
                /\ <<e, d_idx, demand.shift_code>> \in xs}}
    IN  AtLeast(eligible_vars, demand.min_staff)

add_min_coverage(dems, dayList, emps, catalog, xs) ==
    {CoverageConstraint(dems[i], dayList, emps, catalog, xs) : i \in DOMAIN dems}

\* day_vars of (e_idx, d_idx)
DayVarsOf(e_idx, d_idx, catalog, xs) ==
    {key \in {<<e_idx, d_idx, catalog[s].code>> : s \in DOMAIN catalog} : key \in xs}

\* add_one_shift_per_day that never finds day_vars
add_one_shift_per_day_skipped(emps, dayList, catalog, xs) == {}

add_one_shift_per_day(emps, dayList, catalog, xs) ==
    {AtMost(DayVarsOf(t[1], t[2], catalog, xs), 1) :
        t \in {u \in (DOMAIN emps) \X (DOMAIN dayList) :
                 DayVarsOf(u[1], u[2], catalog, xs) # {}}}

\* _shift_end_datetime that leaves the end of a night shift on the day it starts
_shift_end_datetime_same_day(day, shift) ==
    IF shift.is_24h /\ shift.end_time = shift.start_time
    THEN day * MinutesPerDay + shift.start_time + DAYS_OF_24H_SHIFT * MinutesPerDay
    ELSE day * MinutesPerDay + shift.end_time

\* _shift_end_datetime(day, shift), in minutes since the epoch of ordinals
_shift_end_datetime(day, shift) ==
    LET start_dt == day * MinutesPerDay + shift.start_time
        end_dt == day * MinutesPerDay + shift.end_time
        end_dt2 == IF shift.end_time <= shift.start_time
                   THEN end_dt + MinutesPerDay ELSE end_dt
    IN  IF shift.is_24h /\ shift.end_time = shift.start_time
        THEN start_dt + DAYS_OF_24H_SHIFT * MinutesPerDay
        ELSE end_dt2

\* rest between shift_a started on day and shift_b started on next_day, minutes
RestMinutes(day, shift_a, next_day, shift_b) ==
    (next_day * MinutesPerDay + shift_b.start_time) - _shift_end_datetime(day, shift_a)

add_rest_constraints(emps, dayList, catalog, xs, min_rest_hours) ==
    {AtMost({<<t[1], t[2], catalog[t[3]].code>>, <<t[1], t[2] + 1, catalog[t[4]].code>>}, 1) :
        t \in {u \in (DOMAIN emps) \X (1..(Len(dayList) - 1)) \X (DOMAIN catalog) \X (DOMAIN catalog) :
                 /\ <<u[1], u[2], catalog[u[3]].code>> \in xs
                 /\ <<u[1], u[2] + 1, catalog[u[4]].code>> \in xs
                 /\ RestMinutes(dayList[u[2]], catalog[u[3]], dayList[u[2] + 1], catalog[u[4]])
                        < min_rest_hours * MINUTES_PER_HOUR}}

\* work_vars of the window of window_size days that starts at index start
WindowVars(e_idx, start, window_size, catalog, xs) ==
    UNION {DayVarsOf(e_idx, d_idx, catalog, xs) : d_idx \in start..(start + window_size - 1)}

\* add_max_consecutive_days whose range of window starts stops one short
add_max_consecutive_days_short(emps, dayList, catalog, xs, max_days) ==
    LET window_size == max_days + 1
    IN  IF Len(dayList) < window_size THEN {}
        ELSE {AtMost(WindowVars(t[1], t[2], window_size, catalog, xs), max_days) :
                t \in {u \in (DOMAIN emps) \X (1..(Len(dayList) - window_size)) :
                         WindowVars(u[1], u[2], window_size, catalog, xs) # {}}}

add_max_consecutive_days(emps, dayList, catalog, xs, max_days) ==
    LET window_size == max_days + 1
    IN  IF Len(dayList) < window_size THEN {}
        ELSE {AtMost(WindowVars(t[1], t[2], window_size, catalog, xs), max_days) :
                t \in {u \in (DOMAIN emps) \X (1..(Len(dayList) - window_size + 1)) :
                         WindowVars(u[1], u[2], window_size, catalog, xs) # {}}}

\* the model solve_schedule builds
BuildConstraints(emps, dems, catalog, dayList, xs) ==
    add_min_coverage(dems, dayList, emps, catalog, xs)
        \cup add_one_shift_per_day(emps, dayList, catalog, xs)
        \cup add_rest_constraints(emps, dayList, catalog, xs, MIN_REST_HOURS)
        \cup add_max_consecutive_days(emps, dayList, catalog, xs, MAX_DAYS)

(***************************************************************************)
(* The CP-SAT solver (solver.solve): the valuations of the 0/1 variables   *)
(* that satisfy every constraint of the model, each given as the set of    *)
(* variables valued 1. They are enumerated day by day; a constraint is     *)
(* tested as soon as the last day it mentions has been valued.             *)
(***************************************************************************)
Satisfied(c, x) ==
    LET n == Cardinality(c.vs \cap x)
    IN  IF c.op = "ge" THEN n >= c.rhs ELSE n <= c.rhs

LastDay(c) == IF c.vs = {} THEN 0 ELSE SetMax({key[2] : key \in c.vs})

FirstDay(c) == IF c.vs = {} THEN 0 ELSE SetMin({key[2] : key \in c.vs})

\* the valuations of the variables of day d_idx that satisfy the constraints on that day alone
DayChoices(d_idx, xs, cs) ==
    LET within == {c \in cs : LastDay(c) = d_idx /\ FirstDay(c) = d_idx}
    IN  {x \in SUBSET {key \in xs : key[2] = d_idx} : \A c \in within : Satisfied(c, x)}

RECURSIVE ExtendSolutions(_, _, _, _, _)
ExtendSolutions(partial, d_idx, n_days, xs, cs) ==
    IF d_idx > n_days \/ partial = {} THEN partial
    ELSE LET across == {c \in cs : LastDay(c) = d_idx /\ FirstDay(c) < d_idx}
             choices == DayChoices(d_idx, xs, cs)
             next == {x \in {t[1] \cup t[2] : t \in partial \X choices} :
                         \A c \in across : Satisfied(c, x)}
         IN  ExtendSolutions(next, d_idx + 1, n_days, xs, cs)

Solutions(n_days, xs, cs) ==
    IF \E c \in cs : c.vs = {} /\ ~Satisfied(c, {}) THEN {}
    ELSE ExtendSolutions({{}}, 1, n_days, xs, cs)

(***************************************************************************)
(* constraints_soft: the auxiliary integer variables and the objective.    *)
(* Every auxiliary variable is defined by a constraint over the decision   *)
(* variables, so a valuation x of the decision variables extends to the    *)
(* full model in exactly one way, and only if each value lies in the       *)
(* domain the variable was created with.                                   *)
(***************************************************************************)
WEEKLY_LIMIT_MINUTES == 48 * MINUTES_PER_HOUR

\* 7.5833 hours
UOP_DAILY_HOURS == 75833

\* int(round(num / den)) for den > 0: round() takes a half to the even neighbour
Round(num, den) ==
    LET q == num \div den
        r == num % den
    IN  IF 2 * r > den \/ (2 * r = den /\ q % 2 = 1) THEN q + 1 ELSE q

Abs(n) == IF n < 0 THEN 0 - n ELSE n

Max0(n) == IF n > 0 THEN n ELSE 0

_minutes_from_hours(hours) ==
    IF hours = None THEN None
    ELSE Some(Round(hours[1] * MINUTES_PER_HOUR, HoursUnit))

_shift_minutes(shift) == Round(shift.duration_h * MINUTES_PER_HOUR, HoursUnit)

_count_workdays(dayList) ==
    Cardinality({i \in DOMAIN dayList :
        ~is_weekend(dayList[i]) /\ ~is_holiday(dayList[i])})

\* settings.wagi_miekkie.get(key, default); the weights are whole numbers
_get_weight(cfg, key, default) ==
    IF key \in DOMAIN cfg.wagi_miekkie THEN cfg.wagi_miekkie[key] ELSE default

_employee_target_minutes(employee, workdays) ==
    IF employee.typ_umowy = "UOP" /\ employee.auto_target
    THEN IF employee.etat = None THEN None
         ELSE Some(Round(employee.etat[1] * workdays * UOP_DAILY_HOURS * MINUTES_PER_HOUR,
                         EtatUnit * HoursUnit))
    ELSE _minutes_from_hours(employee.cel_godz_miesiac)

_employee_min_max_minutes(employee) ==
    <<_minutes_from_hours(employee.min_godz_miesiac),
      _minutes_from_hours(employee.max_godz_miesiac)>>

\* day.isocalendar(): <<ISO year, ISO week>>, the year and week of the Thursday of the week
isocalendar(day) ==
    LET thursday == day - Weekday(day) + 3
        year == YearOf(thursday)
    IN  <<year, (thursday - Date(year, 1, 1)) \div 7 + 1>>

\* the name of an auxiliary variable, by the parts of its f-string
VarName(kind, metric, group, e_idx, d_idx) ==
    [kind |-> kind, metric |-> metric, group |-> group, e_idx |-> e_idx, d_idx |-> d_idx]

\* coef * sum(keys): the terms of a linear expression that share a coefficient
Term(coef, keys) == [coef |-> coef, keys |-> keys]

\* model.new_int_var(lo, hi, name) with the constraint that defines it over the
\* expression sum(terms) + const: "eq" for model.add(var == expr), "max" for
\* add_max_equality(var, [expr, 0]), "abs" for add_abs_equality(var, expr);
\* weight is the weight of its penalty term, None when it has none
IntVar(name, lo, hi, fn, terms, const, weight) ==
    [name |-> name, lo |-> lo, hi |-> hi, fn |-> fn, terms |-> terms, const |-> const,
     weight |-> weight]

\* var * shift_minutes[shift_code] for the variables of an employee on the given days
MinuteTerms(e_idx, d_idxs, catalog, xs) ==
    [s \in DOMAIN catalog |->
        Term(_shift_minutes(catalog[s]),
             {key \in xs : key[1] = e_idx /\ key[2] \in d_idxs /\ key[3] = catalog[s].code})]

MaxShiftMinutes(catalog) ==
    IF catalog = <<>> THEN 0
    ELSE SetMax({_shift_minutes(catalog[s]) : s \in DOMAIN catalog})

\* the variables of the total, the hour limits and the target of one employee
HourVars(e_idx, employee, dayList, catalog, xs, workdays, cfg) ==
    LET total_max_minutes == Len(dayList) * MaxShiftMinutes(catalog)
        total_minutes == MinuteTerms(e_idx, DOMAIN dayList, catalog, xs)
        min_minutes == _employee_min_max_minutes(employee)[1]
        max_minutes == _employee_min_max_minutes(employee)[2]
        target_minutes == _employee_target_minutes(employee, workdays)
        negated == [s \in DOMAIN total_minutes |->
                       Term(0 - total_minutes[s].coef, total_minutes[s].keys)]
        name(kind) == VarName(kind, "", "", e_idx, 0)
    IN  <<IntVar(name("minutes"), 0, total_max_minutes, "eq", total_minutes, 0, None)>>
        \o (IF max_minutes # None
            THEN <<IntVar(name("excess_diff"), 0 - total_max_minutes, total_max_minutes,
                          "eq", total_minutes, 0 - max_minutes[1], None),
                   IntVar(name("excess"), 0, total_max_minutes,
                          "max", total_minutes, 0 - max_minutes[1],
                          Some(_get_weight(cfg, "max_hours", 1000)))>>
            ELSE <<>>)
        \o (IF min_minutes # None
            THEN <<IntVar(name("short_diff"), 0 - total_max_minutes, total_max_minutes,
                          "eq", negated, min_minutes[1], None),
                   IntVar(name("short"), 0, total_max_minutes,
                          "max", negated, min_minutes[1],
                          Some(_get_weight(cfg, "min_hours", 500)))>>
            ELSE <<>>)
        \o (IF target_minutes # None
            THEN <<IntVar(name("dev_target"), 0, total_max_minutes,
                          "abs", total_minutes, 0 - target_minutes[1],
                          Some(_get_weight(cfg, "target_hours", 100)))>>
            ELSE <<>>)

\* the first index of every ISO week of the horizon, in the insertion order of weeks
WeekFirsts(dayList) ==
    SortedSeq({i \in DOMAIN dayList :
        \A j \in DOMAIN dayList : j < i => isocalendar(dayList[j]) # isocalendar(dayList[i])})

\* weeks[(year, week)]: the indices of the horizon days of the ISO week of dayList[first]
WeekIndices(dayList, first) ==
    {i \in DOMAIN dayList : isocalendar(dayList[i]) = isocalendar(dayList[first])}

\* _add_weekly_limit_penalties that sums the minutes of the whole horizon for every week
_add_weekly_limit_penalties_horizon(e_idx, dayList, catalog, xs, weight) ==
    LET max_week_minutes == Len(dayList) * MaxShiftMinutes(catalog)
        firsts == WeekFirsts(dayList)
        week_vars(first) ==
            LET week_minutes == MinuteTerms(e_idx, DOMAIN dayList, catalog, xs)
                name(kind) == VarName(kind, "", "", e_idx, first)
            IN  IF \A s \in DOMAIN week_minutes : week_minutes[s].keys = {} THEN <<>>
                ELSE <<IntVar(name("week_minutes"), 0, max_week_minutes,
                              "eq", week_minutes, 0, None),
                       IntVar(name("week_diff"), 0 - max_week_minutes, max_week_minutes,
                              "eq", week_minutes, 0 - WEEKLY_LIMIT_MINUTES, None),
                       IntVar(name("week_excess"), 0, max_week_minutes,
                              "max", week_minutes, 0 - WEEKLY_LIMIT_MINUTES, Some(weight))>>
    IN  FlattenSeq([w \in DOMAIN firsts |-> week_vars(firsts[w])])

_add_weekly_limit_penalties(e_idx, dayList, catalog, xs, weight) ==
    LET max_week_minutes == Len(dayList) * MaxShiftMinutes(catalog)
        firsts == WeekFirsts(dayList)
        week_vars(first) ==
            LET week_minutes == MinuteTerms(e_idx, WeekIndices(dayList, first), catalog, xs)
                name(kind) == VarName(kind, "", "", e_idx, first)
            IN  IF \A s \in DOMAIN week_minutes : week_minutes[s].keys = {} THEN <<>>
                ELSE <<IntVar(name("week_minutes"), 0, max_week_minutes,
                              "eq", week_minutes, 0, None),
                       IntVar(name("week_diff"), 0 - max_week_minutes, max_week_minutes,
                              "eq", week_minutes, 0 - WEEKLY_LIMIT_MINUTES, None),
                       IntVar(name("week_excess"), 0, max_week_minutes,
                              "max", week_minutes, 0 - WEEKLY_LIMIT_MINUTES, Some(weight))>>
    IN  FlattenSeq([w \in DOMAIN firsts |-> week_vars(firsts[w])])

METRICS == <<"night", "weekend", "shift_24h">>

\* the indices of the days with is_weekend(day) or is_holiday(day)
WeekendIndices(dayList) ==
    {d_idx \in DOMAIN dayList : is_weekend(dayList[d_idx]) \/ is_holiday(dayList[d_idx])}

\* whether the variable of a shift is a term of the count of a metric, on a day
\* that is or is not a weekend or a holiday
MetricCounts(metric, employee, weekend, shift) ==
    /\ shift.grupa = employee.grupa
    /\ IF metric = "weekend" THEN weekend
       ELSE IF metric = "night" THEN shift.end_time <= shift.start_time /\ ~shift.is_24h
       ELSE shift.is_24h

_add_balance_counts(e_idx, employee, dayList, weekends, catalog, xs) ==
    LET terms(metric) ==
            {key \in xs :
                /\ key[1] = e_idx
                /\ MetricCounts(metric, employee, key[2] \in weekends,
                                ShiftByCode(catalog, key[3]))}
    IN  [m \in DOMAIN METRICS |->
            IntVar(VarName("count", METRICS[m], "", e_idx, 0), 0, Len(dayList), "eq",
                   <<Term(1, terms(METRICS[m]))>>, 0, None)]

\* the first member of every group, in the insertion order of group_members
GroupFirsts(emps) ==
    SortedSeq({i \in DOMAIN emps : \A j \in DOMAIN emps : j < i => emps[j].grupa # emps[i].grupa})

\* employee_metric_counts[(idx, metric)] among the variables created so far
CountVar(created, idx, metric) ==
    created[CHOOSE i \in DOMAIN created : created[i].name = VarName("count", metric, "", idx, 0)]

\* _add_balance_penalties with count_var - total_var for the deviation
_add_balance_penalties_unscaled(emps, employee_metric_counts, weight, days_len) ==
    LET firsts == GroupFirsts(emps)
        group_vars(group, metric) ==
            LET indices == SortedSeq({i \in DOMAIN emps : emps[i].grupa = group})
                group_size == Len(indices)
                total_max == Len(indices) * days_len
                counts == FlattenSeq([i \in DOMAIN indices |->
                              CountVar(employee_metric_counts, indices[i], metric).terms])
                negated == [i \in DOMAIN counts |-> Term(0 - 1, counts[i].keys)]
            IN  <<IntVar(VarName("total", metric, group, 0, 0), 0, total_max, "eq",
                         counts, 0, None)>>
                \o [i \in DOMAIN indices |->
                       IntVar(VarName("dev", metric, group, indices[i], 0),
                              0, total_max * group_size, "abs",
                              <<Term(1, counts[i].keys)>> \o negated,
                              0, Some(weight))]
    IN  FlattenSeq([g \in DOMAIN firsts |->
            FlattenSeq([m \in DOMAIN METRICS |->
                group_vars(emps[firsts[g]].grupa, METRICS[m])])])

_add_balance_penalties(emps, employee_metric_counts, weight, days_len) ==
    LET firsts == GroupFirsts(emps)
        group_vars(group, metric) ==
            LET indices == SortedSeq({i \in DOMAIN emps : emps[i].grupa = group})
                group_size == Len(indices)
                total_max == Len(indices) * days_len
                counts == FlattenSeq([i \in DOMAIN indices |->
                              CountVar(employee_metric_counts, indices[i], metric).terms])
                negated == [i \in DOMAIN counts |-> Term(0 - 1, counts[i].keys)]
            IN  <<IntVar(VarName("total", metric, group, 0, 0), 0, total_max, "eq",
                         counts, 0, None)>>
                \o [i \in DOMAIN indices |->
                       IntVar(VarName("dev", metric, group, indices[i], 0),
                              0, total_max * group_size, "abs",
                              <<Term(group_size, counts[i].keys)>> \o negated,
                              0, Some(weight))]
    IN  FlattenSeq([g \in DOMAIN firsts |->
            FlattenSeq([m \in DOMAIN METRICS |->
                group_vars(emps[firsts[g]].grupa, METRICS[m])])])

\* add_soft_constraints: every auxiliary variable, in creation order
add_soft_constraints(emps, dayList, catalog, xs, cfg) ==
    LET used == IF cfg = None THEN DefaultSettings ELSE cfg[1]
        workdays == _count_workdays(dayList)
        weekends == WeekendIndices(dayList)
        weight_weekly == _get_weight(used, "weekly_48h", 500)
        weight_balance == _get_weight(used, "balance", 50)
        employee_vars(e_idx) ==
            HourVars(e_idx, emps[e_idx], dayList, catalog, xs, workdays, used)
            \o (IF emps[e_idx].typ_umowy \in {"B2B", "ZLECENIE"}
                THEN _add_weekly_limit_penalties(e_idx, dayList, catalog, xs, weight_weekly)
                ELSE <<>>)
            \o _add_balance_counts(e_idx, emps[e_idx], dayList, weekends, catalog, xs)
        created == FlattenSeq([e_idx \in DOMAIN emps |-> employee_vars(e_idx)])
    IN  created \o _add_balance_penalties(emps, created, weight_balance, Len(dayList))

\* the value the defining constraint of an auxiliary variable gives it under a
\* valuation x of the decision variables
Value(v, x) ==
    LET expr == v.const + SeqSum([i \in DOMAIN v.terms |->
                                   v.terms[i].coef * Cardinality(v.terms[i].keys \cap x)])
    IN  IF v.fn = "max" THEN Max0(expr) ELSE IF v.fn = "abs" THEN Abs(expr) ELSE expr

\* every auxiliary variable takes a value of its domain
InDomain(avs, x) ==
    \A i \in DOMAIN avs : avs[i].lo <= Value(avs[i], x) /\ Value(avs[i], x) <= avs[i].hi

\* model.minimize(sum(penalty_terms))
Objective(avs, x) ==
    SeqSum([i \in DOMAIN avs |->
        IF avs[i].weight = None THEN 0 ELSE avs[i].weight[1] * Value(avs[i], x)])

\* the valuations of the decision variables that extend to a solution of the model
ModelSolutions(n_days, xs, cs, avs) ==
    {x \in Solutions(n_days, xs, cs) : InDomain(avs, x)}

\* the solutions of the least objective
Optimal(sols, avs) ==
    LET least == SetMin({Objective(avs, x) : x \in sols})
    IN  IF sols = {} THEN {} ELSE {x \in sols : Objective(avs, x) = least}

\* the status test that takes only INFEASIBLE for a failure
STATUS_OK_unknown == {"OPTIMAL", "FEASIBLE", "UNKNOWN"}

\* status in (cp_model.OPTIMAL, cp_model.FEASIBLE)
STATUS_OK == {"OPTIMAL", "FEASIBLE"}

(***************************************************************************)
(* solver.solve_schedule                                                   *)
(***************************************************************************)
\* _candidate_counts(demands, employees, shifts)[(demand.date, demand.shift_code)]
_candidate_counts(demand, emps, catalog) ==
    Cardinality({e \in DOMAIN emps :
        eligible_for_shift(emps[e], ShiftByCode(catalog, demand.shift_code))})

\* f"{demand.shift_code}: {available}/{demand.min_staff}", by its three fields
ShortageEntry(demand, available) ==
    [shift_code |-> demand.shift_code, available |-> available, required |-> demand.min_staff]

\* shortage[day] that also takes the lines with exactly min_staff candidates
ShortageOf_inclusive(day, dems, emps, catalog) ==
    LET short == SelectSeq(dems, LAMBDA demand :
                    /\ demand.date = day
                    /\ _candidate_counts(demand, emps, catalog) <= demand.min_staff)
    IN  [i \in DOMAIN short |-> ShortageEntry(short[i], _candidate_counts(short[i], emps, catalog))]

\* shortage[day]: the entries of the short demand lines of the day, in demand order
ShortageOf(day, dems, emps, catalog) ==
    LET short == SelectSeq(dems, LAMBDA demand :
                    /\ demand.date = day
                    /\ _candidate_counts(demand, emps, catalog) < demand.min_staff)
    IN  [i \in DOMAIN short |-> ShortageEntry(short[i], _candidate_counts(short[i], emps, catalog))]

\* f"- {day}: {', '.join(shortage[day])}", by its fields
ShortageLine(day, entries) == [day |-> day, entries |-> entries]

\* a text is its first line and the lines that follow it ("\n".join(lines))
Text(first, rest) == [first |-> first, rest |-> rest]

SHORTAGE_HEADER == "Brak kandydatow dla demandow:"
NO_HINTS == "Model infeasible: brak szczegolowych wskazowek."

\* the report of an infeasible solve
InfeasibilityReport(dems, emps, catalog) ==
    LET shortDays == SortedSeq({dems[i].date : i \in
                        {j \in DOMAIN dems :
                            _candidate_counts(dems[j], emps, catalog) < dems[j].min_staff}})
    IN  IF shortDays # <<>>
        THEN Text(SHORTAGE_HEADER,
                  [i \in DOMAIN shortDays |->
                     ShortageLine(shortDays[i], ShortageOf(shortDays[i], dems, emps, catalog))])
        ELSE Text(NO_HINTS, <<>>)

\* the extraction of a demand line that stops at the first employee valued 1
DemandAssignments_first(demand, emps, dayList, xs, x) ==
    LET d_idx == DayIndex(dayList, demand.date)
        idxs == SelectSeq([e \in DOMAIN emps |-> e], LAMBDA e_idx :
                    /\ <<e_idx, d_idx, demand.shift_code>> \in xs
                    /\ <<e_idx, d_idx, demand.shift_code>> \in x)
    IN  IF idxs = <<>> THEN <<>>
        ELSE <<Assignment(demand.date, demand.shift_code, emps[idxs[1]].id, emps[idxs[1]].name)>>

\* the assignments emitted for one demand line, in employee order
DemandAssignments(demand, emps, dayList, xs, x) ==
    LET d_idx == DayIndex(dayList, demand.date)
        idxs == SelectSeq([e \in DOMAIN emps |-> e], LAMBDA e_idx :
                    /\ <<e_idx, d_idx, demand.shift_code>> \in xs
                    /\ <<e_idx, d_idx, demand.shift_code>> \in x)
    IN  [i \in DOMAIN idxs |->
            Assignment(demand.date, demand.shift_code, emps[idxs[i]].id, emps[idxs[i]].name)]

\* the extraction loop of solve_schedule
ExtractAssignments(dems, emps, dayList, xs, x) ==
    FlattenSeq([i \in DOMAIN dems |-> DemandAssignments(dems[i], emps, dayList, xs, x)])

\* the early return reporting that there is nothing to solve
EmptyDemandsResult_infeasible == SolveResult(FALSE, <<>>, Some(Text(NO_HINTS, <<>>)))

EmptyDemandsResult == SolveResult(TRUE, <<>>, None)

\* the failure result built without its report
InfeasibleResult_no_report(dems, emps, catalog) == SolveResult(FALSE, <<>>, None)

InfeasibleResult(dems, emps, catalog) ==
    SolveResult(FALSE, <<>>, Some(InfeasibilityReport(dems, emps, catalog)))

FeasibleResult(dems, emps, dayList, xs, x) ==
    SolveResult(TRUE, ExtractAssignments(dems, emps, dayList, xs, x), None)

\* if not demands: return SolveResult(feasible=True, assignments=[], report=None)
ReturnEmpty ==
    /\ pc = "call"
    /\ demands = <<>>
    /\ result' = EmptyDemandsResult
    /\ pc' = "done"
    /\ UNCHANGED <<call, ret, employees, shifts, demands, settings, days, variables,
                   constraints, aux_vars, status, solution>>

\* days, variables and the constraints of the model
BuildModel ==
    /\ pc = "call"
    /\ demands # <<>>
    /\ LET dayList == _collect_days(demands)
           xs == build_decision_vars(employees, dayList, shifts)
       IN  /\ days' = dayList
           /\ variables' = xs
           /\ constraints' = BuildConstraints(employees, demands, shifts, dayList, xs)
           /\ aux_vars' = add_soft_constraints(employees, dayList, shifts, xs, settings)
    /\ pc' = "built"
    /\ UNCHANGED <<call, ret, employees, shifts, demands, settings, status, solution, result>>

\* status = solver.solve(model)
SolveModel ==
    /\ pc = "built"
    /\ LET sols == ModelSolutions(Len(days), variables, constraints, aux_vars)
       IN  \/ \E x \in Optimal(sols, aux_vars) : status' = "OPTIMAL" /\ solution' = x
           \/ \E x \in sols : status' = "FEASIBLE" /\ solution' = x
           \/ sols = {} /\ status' = "INFEASIBLE" /\ solution' = {}
           \/ status' = "UNKNOWN" /\ solution' = {}
    /\ pc' = "solved"
    /\ UNCHANGED <<call, ret, employees, shifts, demands, settings, days, variables,
                   constraints, aux_vars, result>>

\* status not in (OPTIMAL, FEASIBLE): the diagnostic report
ReturnInfeasible ==
    /\ pc = "solved"
    /\ status \notin STATUS_OK
    /\ result' = InfeasibleResult(demands, employees, shifts)
    /\ pc' = "done"
    /\ UNCHANGED <<call, ret, employees, shifts, demands, settings, days, variables,
                   constraints, aux_vars, status, solution>>

\* the extraction of the assignments valued 1
ReturnFeasible ==
    /\ pc = "solved"
    /\ status \in STATUS_OK
    /\ result' = FeasibleResult(demands, employees, days, variables, solution)
    /\ pc' = "done"
    /\ UNCHANGED <<call, ret, employees, shifts, demands, settings, days, variables,
                   constraints, aux_vars, status, solution>>

Next == ReturnEmpty \/ BuildModel \/ SolveModel \/ ReturnInfeasible \/ ReturnFeasible

(***************************************************************************)
(* Inputs.                                                                 *)
(***************************************************************************)
T0700 == 7 * MINUTES_PER_HOUR
T1500 == 15 * MINUTES_PER_HOUR
T1900 == 19 * MINUTES_PER_HOUR

MR_D == ShiftType("MR_D", ELEKTRORADIOLOG, "MR", T0700, T1500, Hours(8), FALSE)
TK_D == ShiftType("TK_D", ELEKTRORADIOLOG, "TK", T0700, T1900, Hours(12), FALSE)
TK_N == ShiftType("TK_N", ELEKTRORADIOLOG, "TK", T1900, T0700, Hours(12), FALSE)
ER_24 == ShiftType("ER_24", ELEKTRORADIOLOG, "ALL", T0700, T0700, Hours(24), TRUE)
P_D == ShiftType("P_D", PIELEGNIARKA, "ZDO", T0700, T1900, Hours(12), FALSE)
P_N == ShiftType("P_N", PIELEGNIARKA, "ZDO", T1900, T0700, Hours(12), FALSE)

\* a full-time radiographer with every skill who may work 24-h shifts
E1 == Employee("E1", ELEKTRORADIOLOG, "UOP", Some(4), TRUE, FALSE, {"MR", "TK", "ALL"},
               None, FALSE, None, None)
\* a contractor qualified for TK only
E2 == Employee("E2", ELEKTRORADIOLOG, "B2B", None, FALSE, FALSE, {"TK"},
               None, FALSE, None, None)
\* a half-time nurse with the AUTO target
N1 == Employee("N1", PIELEGNIARKA, "UOP", Some(2), FALSE, FALSE, {"ZDO"},
               None, TRUE, None, None)
\* a full-time nurse
N2 == Employee("N2", PIELEGNIARKA, "UOP", Some(4), FALSE, FALSE, {"ZDO"},
               None, FALSE, None, None)
\* a full-time radiographer with every skill who may not work 24-h shifts
E3 == Employee("E3", ELEKTRORADIOLOG, "UOP", Some(4), FALSE, FALSE, {"MR", "TK", "ALL"},
               None, FALSE, None, None)

\* bounds of the general inputs
MaxDemands == 2
MaxMinStaff == 2

\* employee lists, in several input orders
Rosters == {<<E1>>, <<E1, E2>>, <<E2, E1>>, <<N1, E1>>, <<E3, E1>>}

\* a catalog in an insertion order that is not the order of the codes
Catalog == <<TK_N, TK_D, ER_24, P_D>>

\* Thursday 2026-02-05 and Friday 2026-02-06
Dates == {Date(2026, 2, 5), Date(2026, 2, 6)}

DemandLines(catalog, dates) ==
    {DemandFor(t[1], catalog[t[2]], t[3], t[3]) :
        t \in dates \X (DOMAIN catalog) \X (1..MaxMinStaff)}

\* lists of at most MaxDemands demand lines, in any order, one line per (date, shift_code)
DemandLists(lines) ==
    {dl \in UNION {[1..n -> lines] : n \in 0..MaxDemands} :
        \A i, j \in DOMAIN dl :
            (dl[i].date = dl[j].date /\ dl[i].shift_code = dl[j].shift_code) => i = j}

NoResult == SolveResult(FALSE, <<>>, None)

\* a call of a function of the package: its name and its arguments
Call(fn, args) == [fn |-> fn, args |-> args]

\* the outcome of a call: not returned yet, a returned value, or a raised error
Pending == [state |-> "pending"]

Returned(value) == [state |-> "returned", value |-> value]

Raised(error) == [state |-> "raised", error |-> error]

\* settings=None, or weights that leave the balance out and keep the other defaults
SettingsChoices == {None, Some(Settings([balance |-> 0]))}

Called ==
    /\ call = Call("solve_schedule", <<>>)
    /\ ret = Pending
    /\ pc = "call"
    /\ days = <<>>
    /\ variables = {}
    /\ constraints = {}
    /\ aux_vars = <<>>
    /\ status = "NOT_SOLVED"
    /\ solution = {}
    /\ result = NoResult

Init ==
    /\ employees \in Rosters
    /\ shifts = Catalog
    /\ demands \in DemandLists(DemandLines(Catalog, Dates))
    /\ settings = None
    /\ Called

\* bound of the horizons of more than a week
WeekDays == 8

\* Monday 2026-02-02
WeekStart == Date(2026, 2, 2)

\* the days of the horizon: the first n days for n from 7 on, or all days but the fourth
WeekDateSets ==
    {{WeekStart + k : k \in 0..(n - 1)} : n \in 7..WeekDays}
        \cup {{WeekStart + k : k \in (0..(WeekDays - 1)) \ {3}}}

\* bound of the number of days of a horizon that ask for one nurse only
MaxLightDays == 2

\* one nurse day line for every date, in date order: min_staff 1 on the light
\* dates and 2 on the others
DailyDemands(dates, light) ==
    LET dayList == SortedSeq(dates)
    IN  [i \in DOMAIN dayList |->
            IF dayList[i] \in light THEN DemandFor(dayList[i], P_D, 1, 1)
            ELSE DemandFor(dayList[i], P_D, 2, 2)]

InitWeek ==
    /\ employees \in {<<N1>>, <<N1, N2>>}
    /\ shifts = <<P_D>>
    /\ demands \in {<<>>} \cup
          {DailyDemands(dates, light) :
              light \in {l \in SUBSET (UNION WeekDateSets) : Cardinality(l) <= MaxLightDays},
              dates \in WeekDateSets}
    /\ settings \in SettingsChoices
    /\ Called

\* the catalog of the monthly scenarios: every required shift category
FebCatalog == <<TK_N, P_N, MR_D, ER_24, TK_D, P_D>>

Feb2026 == <<2026, 2>>

FebDemands == build_demands(Feb2026, FebCatalog).demands

\* a radiographer on a contract of mandate, qualified for MR only
E4 == Employee("E4", ELEKTRORADIOLOG, "ZLECENIE", None, FALSE, FALSE, {"MR"},
               None, FALSE, None, None)

FebRosters ==
    {<<E1, N1>>, <<N1, E1>>, <<E3, N1>>, <<E2, E3, N1>>, <<E1, E3, N1>>, <<E4, N1>>}

\* the demands built for 2026-02, one line of them alone, or none
InitFeb ==
    /\ employees \in FebRosters
    /\ shifts = FebCatalog
    /\ demands \in {<<>>, FebDemands} \cup {<<FebDemands[i]>> : i \in DOMAIN FebDemands}
    /\ settings \in SettingsChoices
    /\ Called

\* solve_schedule is not running
Idle ==
    /\ employees = <<>>
    /\ shifts = <<>>
    /\ demands = <<>>
    /\ settings = None
    /\ pc = "idle"
    /\ days = <<>>
    /\ variables = {}
    /\ constraints = {}
    /\ aux_vars = <<>>
    /\ status = "NOT_SOLVED"
    /\ solution = {}
    /\ result = NoResult

solve_vars == <<employees, shifts, demands, settings, pc, days, variables, constraints,
                aux_vars, status, solution, result>>

(***************************************************************************)
(* Calls of demand.build_demands.                                          *)
(***************************************************************************)
T2300 == 23 * MINUTES_PER_HOUR

\* shifts beyond the six of the monthly catalog: a short TK day shift that starts with
\* TK_D, an MR afternoon shift, a 24-h nurse shift
TK_A == ShiftType("TK_A", ELEKTRORADIOLOG, "TK", T0700, T1500, Hours(8), FALSE)
MR_A == ShiftType("MR_A", ELEKTRORADIOLOG, "MR", T1500, T2300, Hours(8), FALSE)
P_24 == ShiftType("P_24", PIELEGNIARKA, "ZDO", T0700, T0700, Hours(24), TRUE)

ShiftPool == <<TK_N, P_N, MR_A, MR_D, ER_24, TK_A, TK_D, P_24, P_D>>

\* the subsequence of seq at the indices of idxs
RECURSIVE SubsequenceAt(_, _)
SubsequenceAt(seq, idxs) ==
    IF seq = <<>> THEN <<>>
    ELSE SubsequenceAt(SubSeq(seq, 1, Len(seq) - 1), idxs)
            \o (IF Len(seq) \in idxs THEN <<seq[Len(seq)]>> ELSE <<>>)

RECURSIVE Reverse(_)
Reverse(seq) == IF seq = <<>> THEN <<>> ELSE Reverse(Tail(seq)) \o <<Head(seq)>>

\* the catalogs: every selection of shifts of the pool, in the order of the pool or in
\* the reverse order
DemandCatalogs ==
    LET selections == {SubsequenceAt(ShiftPool, idxs) : idxs \in SUBSET (DOMAIN ShiftPool)}
    IN  selections \cup {Reverse(c) : c \in selections}

\* months with a leap day, with Easter Monday, with Corpus Christi, and a December
DemandMonths == {<<2024, 2>>, <<2026, 4>>, <<2026, 6>>, <<2026, 12>>}

InitDemands ==
    /\ call \in {Call("build_demands", [month |-> m, shifts |-> c]) :
                    m \in DemandMonths, c \in DemandCatalogs}
    /\ ret = Pending
    /\ Idle

\* demands = build_demands(month, shifts)
CallBuildDemands ==
    /\ call.fn = "build_demands"
    /\ ret = Pending
    /\ LET built == build_demands(call.args.month, call.args.shifts)
       IN  ret' = IF built.raised = None THEN Returned(built.demands)
                  ELSE Raised(built.raised[1])
    /\ UNCHANGED <<call, solve_vars>>

NextDemands == CallBuildDemands

SpecDemands == InitDemands /\ [][NextDemands]_vars

(***************************************************************************)
(* Calls of constraints_hard.eligible_for_shift.                           *)
(***************************************************************************)
GROUPS == {ELEKTRORADIOLOG, PIELEGNIARKA}

\* the modalities of the catalog, and one that is none of them
MODALITIES == {"MR", "TK", "ZDO", "ALL"}

ModalityPool == MODALITIES \cup {"USG"}

\* employees of every group, 24-h permission, PN-PT flag and skill set
EligibilityEmployees ==
    {Employee("E4", g, "B2B", None, m, w, sk, None, FALSE, None, None) :
        g \in GROUPS, m \in BOOLEAN, w \in BOOLEAN, sk \in SUBSET MODALITIES}

\* shifts of every group, modality and length
EligibilityShifts ==
    {ShiftType("TK_D", g, mo, T0700, IF h THEN T0700 ELSE T1900,
               IF h THEN Hours(24) ELSE Hours(12), h) :
        g \in GROUPS, mo \in ModalityPool, h \in BOOLEAN}

InitEligible ==
    /\ call \in {Call("eligible_for_shift", [employee |-> e, shift |-> sh]) :
                    e \in EligibilityEmployees, sh \in EligibilityShifts}
    /\ ret = Pending
    /\ Idle

CallEligibleForShift ==
    /\ call.fn = "eligible_for_shift"
    /\ ret = Pending
    /\ ret' = Returned(eligible_for_shift(call.args.employee, call.args.shift))
    /\ UNCHANGED <<call, solve_vars>>

NextEligible == CallEligibleForShift

SpecEligible == InitEligible /\ [][NextEligible]_vars

(***************************************************************************)
(* Calls of calendar_pl.month_days on the text "YYYY-MM".                  *)
(***************************************************************************)
\* common, leap, century and 400-year years
YearTexts ==
    {<<"1", "9", "9", "9">>, <<"2", "0", "0", "0">>, <<"2", "0", "2", "4">>,
     <<"2", "0", "2", "6">>, <<"2", "1", "0", "0">>}

MonthTexts == {<<DIGITS[(m \div 10) + 1], DIGITS[(m % 10) + 1]>> : m \in 1..12}

InitMonthDays ==
    /\ call \in {Call("month_days", [ym |-> y \o <<"-">> \o m]) :
                    y \in YearTexts, m \in MonthTexts}
    /\ ret = Pending
    /\ Idle

CallMonthDays ==
    /\ call.fn = "month_days"
    /\ ret = Pending
    /\ ret' = Returned(month_days(ParseYearMonth(call.args.ym)))
    /\ UNCHANGED <<call, solve_vars>>

NextMonthDays == CallMonthDays

SpecMonthDays == InitMonthDays /\ [][NextMonthDays]_vars

(***************************************************************************)
(* Calls of calendar_pl.is_holiday and calendar_pl._easter_sunday.         *)
(***************************************************************************)
\* the years whose every day is asked about
HolidayYears == 2024..2027

\* the years whose Easter Sunday is computed
EasterYears == 1900..2199

InitCalendar ==
    /\ call \in {Call("is_holiday", [day |-> d]) :
                    d \in UNION {Date(y, 1, 1)..Date(y, 12, 31) : y \in HolidayYears}}
                \cup {Call("_easter_sunday", [year |-> y]) : y \in EasterYears}
    /\ ret = Pending
    /\ Idle

CallIsHoliday ==
    /\ call.fn = "is_holiday"
    /\ ret = Pending
    /\ ret' = Returned(is_holiday(call.args.day))
    /\ UNCHANGED <<call, solve_vars>>

CallEasterSunday ==
    /\ call.fn = "_easter_sunday"
    /\ ret = Pending
    /\ ret' = Returned(EasterSunday(call.args.year))
    /\ UNCHANGED <<call, solve_vars>>

NextCalendar == CallIsHoliday \/ CallEasterSunday

SpecCalendar == InitCalendar /\ [][NextCalendar]_vars

(***************************************************************************)
(* Calls of Employee.model_validate.                                       *)
(***************************************************************************)
\* the raw values of cel_godz_miesiac: absent, a number, or a text
TargetValues ==
    {None, Some(Num(Hours(80))), Some(Str("AUTO")), Some(Str(" auto ")),
     Some(Str("80,5")), Some(Str("brak"))}

EmployeeValues ==
    [id : {"E4"},
     grupa : {None} \cup {Some(Member(g)) : g \in GROUPS},
     typ_umowy : ContractType \cup {"ETAT"},
     etat : {None, Some(2), Some(4)},
     moze_24h : {None, Some(TRUE)},
     pn_pt : {Some(FALSE)},
     skills : {None} \cup {Some(sk) : sk \in SUBSET MODALITIES},
     cel_godz_miesiac : TargetValues,
     auto_target : BOOLEAN]

InitEmployee ==
    /\ call \in {Call("Employee", values) : values \in EmployeeValues}
    /\ ret = Pending
    /\ Idle

CallEmployee ==
    /\ call.fn = "Employee"
    /\ ret = Pending
    /\ LET built == Employee_model_validate(call.args)
       IN  ret' = IF built.raised = None THEN Returned(built.value[1])
                  ELSE Raised(built.raised[1])
    /\ UNCHANGED <<call, solve_vars>>

NextEmployee == CallEmployee

SpecEmployee == InitEmployee /\ [][NextEmployee]_vars

(***************************************************************************)
(* Calls of domain.normalize_group.                                        *)
(***************************************************************************)
ZDO_TEXT == <<"z", "d", "o">>

\* labels in lower case: the accepted ones, near misses and strangers
BaseLabels ==
    {ELEKTRORADIOLOG_TEXT, ER_TEXT, PIELEGNIARKA_TEXT, PIELEGNIARKA_OGONEK_TEXT,
     PIELEGNIARKI_OGONEK_TEXT, PIEL_TEXT, ZDO_TEXT,
     <<"p", "i", "e", "l", "e", "g", "n", "i", "a", "r", "k", "i">>, <<"l", "e", "k", "a", "r", "z">>, <<"r", "t", "g">>, <<>>}

\* str.upper() on the letters of LOWER
upper(chars) ==
    [i \in DOMAIN chars |->
        IF \E k \in DOMAIN LOWER : LOWER[k] = chars[i]
        THEN UPPER[CHOOSE k \in DOMAIN LOWER : LOWER[k] = chars[i]]
        ELSE chars[i]]

\* str.capitalize() of a text in lower case
capitalize(chars) ==
    IF chars = <<>> THEN chars ELSE upper(<<Head(chars)>>) \o Tail(chars)

\* every base label in lower case, upper case and capitalized, bare or padded
GroupLabels ==
    UNION {{cased, <<" ">> \o cased, cased \o <<" ">>} :
              cased \in UNION {{b, upper(b), capitalize(b)} : b \in BaseLabels}}

InitGroup ==
    /\ call \in {Call("normalize_group", [value |-> v]) :
                    v \in {None} \cup {Some(Member(g)) : g \in GROUPS}
                                 \cup {Some(Label(l)) : l \in GroupLabels}}
    /\ ret = Pending
    /\ Idle

CallNormalizeGroup ==
    /\ call.fn = "normalize_group"
    /\ ret = Pending
    /\ LET normalized == normalize_group(call.args.value)
       IN  ret' = IF normalized.raised = None THEN Returned(normalized.value[1])
                  ELSE Raised(normalized.raised[1])
    /\ UNCHANGED <<call, solve_vars>>

NextGroup == CallNormalizeGroup

SpecGroup == InitGroup /\ [][NextGroup]_vars

Spec == Init /\ [][Next]_vars

(***************************************************************************)
(* Scenario S5: one night line a day for two nurses that differ in nothing *)
(* but their id, over the first days of 2026-02.                           *)
(***************************************************************************)
\* the twin of N2
N3 == Employee("N3", PIELEGNIARKA, "UOP", Some(4), FALSE, FALSE, {"ZDO"},
               None, FALSE, None, None)
\* the twin of N1
N4 == Employee("N4", PIELEGNIARKA, "UOP", Some(2), FALSE, FALSE, {"ZDO"},
               None, TRUE, None, None)

\* bounds of the number of days of the horizon: for the nurses alone, and
\* with a radiographer who may take a 24-h shift on any day
NightDays == 6
MixedDays == 3

\* one night line (min 1) of the nurses for each of the first n days of 2026-02
NightLines(n) == [i \in 1..n |-> DemandFor(Date(2026, 2, 1) + (i - 1), P_N, 1, 1)]

TwinRosters == {<<N2, N3>>, <<N1, N4>>, <<N4, N1>>}

InitNights ==
    /\ \/ /\ employees \in TwinRosters
          /\ shifts = <<P_N>>
          /\ demands \in {NightLines(n) : n \in 0..NightDays}
       \/ /\ employees = <<E1, N2, N3>>
          /\ shifts = <<ER_24, P_N>>
          /\ demands \in {NightLines(n) : n \in 1..MixedDays}
    /\ settings = None
    /\ Called

SpecNights == InitNights /\ [][Next]_vars

SpecWeek == InitWeek /\ [][Next]_vars

SpecFeb == (Init \/ InitFeb) /\ [][Next]_vars

(***************************************************************************)
(* Properties of the result of solve_schedule.                             *)
(***************************************************************************)
Done == pc = "done"

FeasibleDone == Done /\ result.feasible

\* the number of emitted assignments with the given date and shift code
CountFor(date, shift_code) ==
    Cardinality({j \in DOMAIN result.assignments :
        /\ result.assignments[j].date = date
        /\ result.assignments[j].shift_code = shift_code})

\* the positions of the assignments of an employee on a date
AssignedOn(employee_id, date) ==
    {j \in DOMAIN result.assignments :
        /\ result.assignments[j].employee_id = employee_id
        /\ result.assignments[j].date = date}

EmployeeById(employee_id) ==
    CHOOSE e \in Range(employees) : e.id = employee_id

\* C1: in every feasible result, every demand line (d, s) has at least
\* min_staff assignments with date d and shift code s.
C1_Coverage ==
    FeasibleDone =>
        \A i \in DOMAIN demands :
            CountFor(demands[i].date, demands[i].shift_code) >= demands[i].min_staff

\* a feasible result that covers a line asking for two employees
C1_Witness ==
    /\ FeasibleDone
    /\ \E i \in DOMAIN demands :
        /\ demands[i].min_staff = 2
        /\ CountFor(demands[i].date, demands[i].shift_code) = 2

\* C2: in every feasible result, every employee has at most one assignment
\* on every date.
C2_OneShiftPerDay ==
    FeasibleDone =>
        \A e \in DOMAIN employees : \A i \in DOMAIN demands :
            Cardinality(AssignedOn(employees[e].id, demands[i].date)) <= 1

\* a feasible result for two lines of one date that one employee is eligible for
C2_Witness ==
    /\ FeasibleDone
    /\ \E i, j \in DOMAIN demands : \E e \in DOMAIN employees :
        /\ i # j
        /\ demands[i].date = demands[j].date
        /\ eligible_for_shift(employees[e], ShiftByCode(shifts, demands[i].shift_code))
        /\ eligible_for_shift(employees[e], ShiftByCode(shifts, demands[j].shift_code))
        /\ Cardinality(AssignedOn(employees[e].id, demands[i].date)) = 1

\* C3: in every feasible result, every assignment pairs an employee with
\* a shift the employee is eligible for.
C3_EligibleOnly ==
    FeasibleDone =>
        \A j \in DOMAIN result.assignments :
            eligible_for_shift(EmployeeById(result.assignments[j].employee_id),
                               ShiftByCode(shifts, result.assignments[j].shift_code))

\* a feasible result with an assignment to a shift another employee of the
\* list is not eligible for
C3_Witness ==
    /\ FeasibleDone
    /\ \E j \in DOMAIN result.assignments : \E e \in DOMAIN employees :
        ~eligible_for_shift(employees[e], ShiftByCode(shifts, result.assignments[j].shift_code))

\* the end of a shift started on day as the rest rule of the specification
\* states it: start + 24 h for a 24-h shift, the next day when end <= start
StatedShiftEnd(day, shift) ==
    IF shift.is_24h THEN day * MinutesPerDay + shift.start_time + MinutesPerDay
    ELSE IF shift.end_time <= shift.start_time
         THEN (day + 1) * MinutesPerDay + shift.end_time
         ELSE day * MinutesPerDay + shift.end_time

StatedRest(a, b) ==
    (b.date * MinutesPerDay + ShiftByCode(shifts, b.shift_code).start_time)
        - StatedShiftEnd(a.date, ShiftByCode(shifts, a.shift_code))

\* the pairs of assignments of one employee on consecutive days d and d + 1
ConsecutivePairs ==
    {t \in (DOMAIN result.assignments) \X (DOMAIN result.assignments) :
        /\ result.assignments[t[1]].employee_id = result.assignments[t[2]].employee_id
        /\ result.assignments[t[2]].date = result.assignments[t[1]].date + 1}

\* C4: in every feasible result, assignments of one employee on consecutive
\* days d and d + 1 leave at least 11 hours between the end of the first
\* shift and the start of the second.
C4_Rest ==
    FeasibleDone =>
        \A t \in ConsecutivePairs :
            StatedRest(result.assignments[t[1]], result.assignments[t[2]])
                >= 11 * MINUTES_PER_HOUR

\* a feasible result with an employee assigned on two consecutive days
C4_Witness == FeasibleDone /\ ConsecutivePairs # {}

\* (date, shift_code, employee_id) of a is lexicographically at most that of b
LexLeq(a, b) ==
    \/ a.date < b.date
    \/ /\ a.date = b.date
       /\ \/ StrLess(a.shift_code, b.shift_code)
          \/ /\ a.shift_code = b.shift_code
             /\ ~StrLess(b.employee_id, a.employee_id)

\* C6: the assignment list of every result is sorted in non-decreasing
\* lexicographic order of (date, shift_code, employee_id).
C6_SortedOutput ==
    Done =>
        \A i, j \in DOMAIN result.assignments :
            i < j => LexLeq(result.assignments[i], result.assignments[j])

\* C7: a solver status other than OPTIMAL and FEASIBLE gives feasible =
\* false, no assignments and a report; feasible = true goes with a null
\* report; no result has feasible = false and assignments.
C7_FailureResult ==
    Done =>
        /\ (demands # <<>> /\ status \notin {"OPTIMAL", "FEASIBLE"}) =>
              /\ ~result.feasible
              /\ result.assignments = <<>>
              /\ result.report # None
              /\ result.report[1].first # ""
        /\ result.feasible => result.report = None
        /\ ~result.feasible => result.assignments = <<>>

\* the solver gave up on a model that has variables, and the call returned
C7_Witness ==
    /\ Done
    /\ status = "UNKNOWN"
    /\ variables # {}
    /\ ~result.feasible

\* C9: with an empty demand list the result is feasible, has no
\* assignments and a null report.
C9_EmptyDemands ==
    (Done /\ demands = <<>>) =>
        /\ result.feasible
        /\ result.assignments = <<>>
        /\ result.report = None

\* the call with no demands and two employees has returned
C9_Witness == Done /\ demands = <<>> /\ Len(employees) = 2

\* the number of days of the 7-day window starting at date first that
\* contain an assignment of the employee
DaysWorkedInWindow(employee_id, first) ==
    Cardinality({d \in first..(first + 6) : AssignedOn(employee_id, d) # {}})

\* C5: in every feasible result, at most 6 days of every window of 7
\* consecutive days contain an assignment of any one employee.
C5_MaxConsecutiveDays ==
    FeasibleDone =>
        \A e \in DOMAIN employees : \A i \in DOMAIN demands :
            DaysWorkedInWindow(employees[e].id, demands[i].date) <= 6

\* a feasible result in which an employee works 6 days of a 7-day window
\* of the horizon
C5_Witness ==
    /\ FeasibleDone
    /\ \E e \in DOMAIN employees : \E i \in DOMAIN demands :
        /\ demands[i].date + 6 \in Range(days)
        /\ DaysWorkedInWindow(employees[e].id, demands[i].date) = 6

\* the number of employees eligible for the shift of a demand line
EligibleCount(demand) ==
    Cardinality({e \in DOMAIN employees :
        eligible_for_shift(employees[e], ShiftByCode(shifts, demand.shift_code))})

\* the demand lines with fewer eligible employees than min_staff
ShortLines == {i \in DOMAIN demands : EligibleCount(demands[i]) < demands[i].min_staff}

\* the entries "shift_code: available/required" expected under a date
ExpectedEntries(date) ==
    {[shift_code |-> demands[i].shift_code, available |-> EligibleCount(demands[i]),
      required |-> demands[i].min_staff] : i \in {j \in ShortLines : demands[j].date = date}}

\* the report lists exactly the short lines, grouped by date, dates ascending
ReportListsShortLines(text) ==
    /\ text.first = "Brak kandydatow dla demandow:"
    /\ {text.rest[k].day : k \in DOMAIN text.rest} = {demands[i].date : i \in ShortLines}
    /\ \A k, l \in DOMAIN text.rest : k < l => text.rest[k].day < text.rest[l].day
    /\ \A k \in DOMAIN text.rest :
        /\ Range(text.rest[k].entries) = ExpectedEntries(text.rest[k].day)
        /\ Len(text.rest[k].entries) = Cardinality(ExpectedEntries(text.rest[k].day))

NoRadiographerFor24h ==
    \A e \in DOMAIN employees :
        employees[e].grupa = ELEKTRORADIOLOG => ~employees[e].moze_24h

\* the Saturdays and Sundays of a month
WeekendDates(ym) ==
    {d \in Range(month_days(ym)) : Weekday(d) \in {5, 6}}

\* C8: on an infeasible solve the report lists exactly the demand lines
\* with fewer eligible employees than min_staff, as "shift_code:
\* available/required" under their date, dates ascending, and is the
\* no-hints message when there is no such line; with no radiographer
\* qualified for 24-h shifts every weekend date of the month is listed
\* with "<24h-code>: 0/1".
C8_InfeasibilityReport ==
    (Done /\ demands # <<>> /\ ~result.feasible) =>
        /\ result.report # None
        /\ IF ShortLines = {}
           THEN result.report[1] = [first |-> "Model infeasible: brak szczegolowych wskazowek.",
                                    rest |-> <<>>]
           ELSE ReportListsShortLines(result.report[1])
        /\ (demands = FebDemands /\ NoRadiographerFor24h) =>
              \A d \in WeekendDates(Feb2026) :
                  \E k \in DOMAIN result.report[1].rest :
                      /\ result.report[1].rest[k].day = d
                      /\ [shift_code |-> "ER_24", available |-> 0, required |-> 1]
                            \in Range(result.report[1].rest[k].entries)

\* the month's demands were infeasible for want of a 24-h radiographer and
\* the report has a line for each of the 8 weekend dates
C8_Witness ==
    /\ Done
    /\ status = "INFEASIBLE"
    /\ demands = FebDemands
    /\ NoRadiographerFor24h
    /\ Len(result.report[1].rest) = 8

\* scenario S2: one radiographer (MR, TK, ALL, may work 24 h), one nurse,
\* a catalog with all required shifts, the demands built for 2026-02
ScenarioS2 ==
    /\ Len(employees) = 2
    /\ \E e \in DOMAIN employees :
        /\ employees[e].grupa = ELEKTRORADIOLOG
        /\ employees[e].skills = {"MR", "TK", "ALL"}
        /\ employees[e].moze_24h
    /\ \E e \in DOMAIN employees : employees[e].grupa = PIELEGNIARKA
    /\ shifts = FebCatalog
    /\ demands = FebDemands

\* the number of assignments to a 24-h shift
Count24h ==
    Cardinality({j \in DOMAIN result.assignments :
        ShiftByCode(shifts, result.assignments[j].shift_code).is_24h})

WeekendOrHolidayDays(ym) ==
    {d \in Range(month_days(ym)) : is_weekend(d) \/ is_holiday(d)}

\* C10 as stated: in scenario S2 the solve is feasible and the number of
\* radiographer 24-h assignments is the number of weekend-or-holiday days
\* of February 2026 (whenever the solver decides the model).
C10_S2FeasibleAsStated ==
    (ScenarioS2 /\ Done /\ status # "UNKNOWN") =>
        /\ result.feasible
        /\ Count24h = Cardinality(WeekendOrHolidayDays(Feb2026))

\* C10 amended: in scenario S2 the model has no solution and the solve
\* returns feasible = false with no assignments.
C10_S2Infeasible ==
    ScenarioS2 =>
        /\ pc \in {"solved", "done"} => status \notin {"OPTIMAL", "FEASIBLE"}
        /\ Done => (~result.feasible /\ result.assignments = <<>>)

\* scenario S2 was solved, found infeasible and returned
C10_Witness == ScenarioS2 /\ Done /\ status = "INFEASIBLE" /\ ~result.feasible

(***************************************************************************)
(* Properties of build_demands.                                            *)
(***************************************************************************)
BuiltDemands == call.fn = "build_demands" /\ ret.state = "returned"

\* the dates of the month <<year, month>>, from the calendar alone
DatesOfMonth(ym) ==
    {Date(ym[1], ym[2], d) : d \in 1..DaysInMonth(ym[1], ym[2])}

\* the shifts of the catalog of a group and modality that are not 24-h shifts
NonDayLong(catalog, grupa, modalnosc) ==
    {i \in DOMAIN catalog :
        /\ catalog[i].grupa = grupa
        /\ catalog[i].modalnosc = modalnosc
        /\ ~catalog[i].is_24h}

\* the line names the earliest-starting shift of the group and modality
IsDayLine(line, catalog, grupa, modalnosc) ==
    \E i \in NonDayLong(catalog, grupa, modalnosc) :
        /\ catalog[i].code = line.shift_code
        /\ \A j \in NonDayLong(catalog, grupa, modalnosc) :
               catalog[i].start_time <= catalog[j].start_time

\* the line names the latest-starting shift of the group and modality
IsNightLine(line, catalog, grupa, modalnosc) ==
    \E i \in NonDayLong(catalog, grupa, modalnosc) :
        /\ catalog[i].code = line.shift_code
        /\ \A j \in NonDayLong(catalog, grupa, modalnosc) :
               catalog[j].start_time <= catalog[i].start_time

\* the line names a 24-h radiographer shift
Is24hLine(line, catalog) ==
    \E i \in DOMAIN catalog :
        /\ catalog[i].code = line.shift_code
        /\ catalog[i].grupa = ELEKTRORADIOLOG
        /\ catalog[i].is_24h

Staff(line, min_staff, target_staff) ==
    line.min_staff = min_staff /\ line.target_staff = target_staff

\* the lines of one day, as the claim states them
DayLinesAsStated(lines, day, catalog) ==
    LET n == Len(lines)
    IN  /\ \A i \in DOMAIN lines : lines[i].date = day
        /\ IF is_weekend(day) \/ is_holiday(day)
           THEN /\ n = 3
                /\ Is24hLine(lines[1], catalog) /\ Staff(lines[1], 1, 1)
           ELSE /\ n = 5
                /\ IsDayLine(lines[1], catalog, ELEKTRORADIOLOG, "MR") /\ Staff(lines[1], 1, 2)
                /\ IsDayLine(lines[2], catalog, ELEKTRORADIOLOG, "TK") /\ Staff(lines[2], 1, 1)
                /\ IsNightLine(lines[3], catalog, ELEKTRORADIOLOG, "TK") /\ Staff(lines[3], 1, 1)
                /\ lines[2].shift_code # lines[3].shift_code
        /\ n >= 2
        /\ IsDayLine(lines[n - 1], catalog, PIELEGNIARKA, "ZDO") /\ Staff(lines[n - 1], 1, 1)
        /\ IsNightLine(lines[n], catalog, PIELEGNIARKA, "ZDO") /\ Staff(lines[n], 1, 1)
        /\ lines[n - 1].shift_code # lines[n].shift_code

\* C11: build_demands emits the days of the month in date order; a weekend
\* or holiday has one 24-h radiographer line (1, 1), any other day the lines
\* MR-day (1, 2), TK-day (1, 1), TK-night (1, 1); every day has the nurse day
\* and night lines (1, 1); day is the earliest-starting and night the
\* latest-starting shift, and the two never share a shift code.
C11_DemandLines ==
    BuiltDemands =>
        LET built == ret.value
            month == call.args.month
        IN  /\ {built[i].date : i \in DOMAIN built} = DatesOfMonth(month)
            /\ \A i, j \in DOMAIN built : i < j => built[i].date <= built[j].date
            /\ \A day \in DatesOfMonth(month) :
                   DayLinesAsStated(SelectSeq(built, LAMBDA line : line.date = day),
                                    day, call.args.shifts)

\* a built list for a catalog with three TK shifts and two that start together, for a
\* month with a holiday on a working day of the week
C11_Witness ==
    /\ BuiltDemands
    /\ Cardinality(NonDayLong(call.args.shifts, ELEKTRORADIOLOG, "TK")) = 3
    /\ \E day \in DatesOfMonth(call.args.month) : is_holiday(day) /\ ~is_weekend(day)
    /\ Len(ret.value) > 0

\* the four shortages of a catalog, counted on the catalog alone
CatalogLacks(catalog) ==
    \/ ~\E i \in DOMAIN catalog : catalog[i].grupa = ELEKTRORADIOLOG /\ catalog[i].is_24h
    \/ NonDayLong(catalog, ELEKTRORADIOLOG, "MR") = {}
    \/ Cardinality(NonDayLong(catalog, ELEKTRORADIOLOG, "TK")) < 2
    \/ Cardinality(NonDayLong(catalog, PIELEGNIARKA, "ZDO")) < 2

\* C12: build_demands raises an error, and returns no list, exactly when
\* the catalog lacks a 24-h radiographer shift, a non-24-h MR shift, two
\* non-24-h TK shifts or two non-24-h nurse ZDO shifts.
C12_CatalogShape ==
    (call.fn = "build_demands" /\ ret.state # "pending") =>
        /\ ret.state = "raised" <=> CatalogLacks(call.args.shifts)
        /\ ret.state = "returned" <=> ~CatalogLacks(call.args.shifts)

\* an error for a catalog whose only shortage is a single TK shift, beside a 24-h
\* nurse shift that does not count as a second nurse shift elsewhere
C12_Witness ==
    /\ call.fn = "build_demands"
    /\ ret.state = "raised"
    /\ Cardinality(NonDayLong(call.args.shifts, ELEKTRORADIOLOG, "TK")) = 1
    /\ Cardinality(NonDayLong(call.args.shifts, PIELEGNIARKA, "ZDO")) = 2
    /\ NonDayLong(call.args.shifts, ELEKTRORADIOLOG, "MR") # {}
    /\ \E i \in DOMAIN call.args.shifts : call.args.shifts[i].code = "ER_24"

(***************************************************************************)
(* Properties of eligible_for_shift.                                       *)
(***************************************************************************)
\* the modality requirement as the claim states it
ModalityMet(employee, shift) ==
    /\ shift.modalnosc = "MR" => "MR" \in employee.skills
    /\ shift.modalnosc = "TK" => "TK" \in employee.skills
    /\ shift.modalnosc = "ZDO" => "ZDO" \in employee.skills
    /\ shift.modalnosc = "ALL" => employee.grupa = ELEKTRORADIOLOG

EligibleAsStated(employee, shift) ==
    /\ employee.grupa = shift.grupa
    /\ shift.is_24h => employee.moze_24h
    /\ ModalityMet(employee, shift)

EligibleReturned == call.fn = "eligible_for_shift" /\ ret.state = "returned"

\* C13: for a shift of modality MR, TK, ZDO or ALL, eligible_for_shift is
\* true exactly when the groups agree, a 24-h shift meets an employee who
\* may work 24 h, and the modality requirement holds; the PN-PT flag of the
\* employee does not change the result.
C13_Eligibility ==
    (EligibleReturned /\ call.args.shift.modalnosc \in MODALITIES) =>
        /\ ret.value <=> EligibleAsStated(call.args.employee, call.args.shift)
        /\ ret.value <=>
               eligible_for_shift([call.args.employee EXCEPT !.pn_pt = ~@], call.args.shift)

\* a refusal that rests on the 24-h permission alone, for an employee with the
\* PN-PT flag set
C13_Witness ==
    /\ EligibleReturned
    /\ ~ret.value
    /\ call.args.shift.modalnosc = "ALL"
    /\ call.args.shift.is_24h
    /\ call.args.employee.pn_pt
    /\ call.args.employee.grupa = ELEKTRORADIOLOG
    /\ call.args.shift.grupa = ELEKTRORADIOLOG

(***************************************************************************)
(* Properties of the target-hours penalty.                                 *)
(***************************************************************************)
\* the month <<year, month>> a date lies in
MonthOf(day) ==
    LET year == YearOf(day)
    IN  <<year, CHOOSE m \in 1..12 :
                    /\ Date(year, m, 1) <= day
                    /\ day < Date(year, m, 1) + DaysInMonth(year, m)>>

\* the days of a month that are neither weekend nor Polish holiday
WorkdaysOfMonth(ym) ==
    Cardinality({d \in DatesOfMonth(ym) : ~is_weekend(d) /\ ~is_holiday(d)})

\* n = round(etat * workdays * 7.5833 * 60), etat in quarters
IsRoundedTarget(n, etat, workdays) ==
    LET num == etat * workdays * 75833 * 60
        den == 4 * 10000
    IN  Abs(2 * (n * den - num)) <= den

\* the employees whose target is computed from the employment fraction
AutoTargetEmployees ==
    {e \in DOMAIN employees :
        /\ employees[e].typ_umowy = "UOP"
        /\ employees[e].auto_target
        /\ employees[e].etat # None}

\* the auxiliary variables of the target deviation of employee e
TargetDeviations(e) ==
    {i \in DOMAIN aux_vars : aux_vars[i].name = VarName("dev_target", "", "", e, 0)}

ModelBuilt == pc = "built" /\ demands # <<>>

\* the penalty of variable v is weight * |assigned minutes of e - target|
IsTargetPenalty(v, e, target) ==
    /\ v.fn = "abs"
    /\ v.const = 0 - target
    /\ v.weight = Some(_get_weight(IF settings = None THEN DefaultSettings ELSE settings[1],
                                   "target_hours", 100))
    /\ \A x \in SUBSET {key \in variables : key[1] = e /\ key[2] = 1} :
           Value(v, x) = Abs(SeqSum([s \in DOMAIN shifts |->
                                 IF \E key \in x : key[3] = shifts[s].code
                                 THEN _shift_minutes(shifts[s]) ELSE 0]) - target)

\* C14: for a UOP employee with AUTO target and fraction f the target of the
\* target-hours penalty is round(f * workdays * 7.5833 * 60) minutes, workdays
\* being the days of the month that are neither weekend nor holiday, and the
\* penalty is w_target_hours * |assigned minutes - target|; for f = 0.5 in
\* 2026-02 the target is 4550 minutes.
C14_AutoTarget ==
    ModelBuilt =>
        \A e \in AutoTargetEmployees :
            LET month == MonthOf(days[1])
                workdays == WorkdaysOfMonth(month)
            IN  /\ Cardinality(TargetDeviations(e)) = 1
                /\ \A i \in TargetDeviations(e) :
                       /\ IsRoundedTarget(0 - aux_vars[i].const, employees[e].etat[1], workdays)
                       /\ IsTargetPenalty(aux_vars[i], e, 0 - aux_vars[i].const)
                       /\ (month = Feb2026 /\ employees[e].etat = Some(2)) =>
                              (workdays = 20 /\ aux_vars[i].const = 0 - 4550)

(***************************************************************************)
(* Determinism of the extraction.                                          *)
(***************************************************************************)
\* the position of a date among the distinct dates of the demand lines
DatePosition(date) ==
    Cardinality({demands[i].date : i \in DOMAIN demands} \cap (0..date))

\* the pairs <<demand line, employee>> whose variable has value 1 in the solution
ValuedOne ==
    {p \in (DOMAIN demands) \X (DOMAIN employees) :
        <<p[2], DatePosition(demands[p[1]].date), demands[p[1]].shift_code>> \in solution}

AssignmentOf(p) ==
    Assignment(demands[p[1]].date, demands[p[1]].shift_code,
               employees[p[2]].id, employees[p[2]].name)

\* C15: the assignment list of a feasible result is, up to its order, fixed
\* by the inputs and the solution values: it holds one assignment for every
\* pair of a demand line and an employee whose variable is valued 1, and
\* nothing else, so two runs with the same inputs and the same solution give
\* the same list after sorting.
C15_Determinism ==
    FeasibleDone =>
        /\ \A j \in DOMAIN result.assignments : \E p \in ValuedOne :
               result.assignments[j] = AssignmentOf(p)
        /\ \A p \in ValuedOne :
               Cardinality({j \in DOMAIN result.assignments :
                                result.assignments[j] = AssignmentOf(p)})
                   = Cardinality({q \in ValuedOne : AssignmentOf(q) = AssignmentOf(p)})

\* a feasible result with two employees on one demand line
C15_Witness ==
    /\ FeasibleDone
    /\ \E j, k \in DOMAIN result.assignments :
        /\ result.assignments[j].date = result.assignments[k].date
        /\ result.assignments[j].shift_code = result.assignments[k].shift_code
        /\ result.assignments[j].employee_id # result.assignments[k].employee_id

(***************************************************************************)
(* Properties of month_days.                                               *)
(***************************************************************************)
MonthDaysReturned == call.fn = "month_days" /\ ret.state = "returned"

\* the year and month a text "YYYY-MM" of the inputs names
NamedYear == CHOOSE y \in 1999..2100 :
    SubSeq(call.args.ym, 1, 4) =
        <<DIGITS[(y \div 1000) + 1], DIGITS[((y \div 100) % 10) + 1],
          DIGITS[((y \div 10) % 10) + 1], DIGITS[(y % 10) + 1]>>

NamedMonth == CHOOSE m \in 1..12 :
    SubSeq(call.args.ym, 6, 7) = <<DIGITS[(m \div 10) + 1], DIGITS[(m % 10) + 1]>>

\* the number of days of a month, by the rule of the Gregorian calendar
MonthLength(year, month) ==
    IF month \in {1, 3, 5, 7, 8, 10, 12} THEN 31
    ELSE IF month # 2 THEN 30
    ELSE IF year % 400 = 0 \/ (year % 4 = 0 /\ year % 100 # 0) THEN 29 ELSE 28

Text2026_02 == <<"2", "0", "2", "6", "-", "0", "2">>

\* C16: month_days("YYYY-MM") returns every date of the month once, in
\* strictly increasing order, from the 1st to the last day of the month; for
\* "2026-02" it has 28 entries from 2026-02-01 to 2026-02-28.
C16_MonthDays ==
    MonthDaysReturned =>
        LET list == ret.value
            n == MonthLength(NamedYear, NamedMonth)
        IN  /\ Len(list) = n
            /\ \A d \in 1..n : list[d] = Date(NamedYear, NamedMonth, d)
            /\ \A i \in 1..(Len(list) - 1) : list[i] < list[i + 1]
            /\ list[n] + 1 = Date(IF NamedMonth = 12 THEN NamedYear + 1 ELSE NamedYear,
                                  IF NamedMonth = 12 THEN 1 ELSE NamedMonth + 1, 1)
            /\ call.args.ym = Text2026_02 =>
                   /\ Len(list) = 28
                   /\ list[1] = Date(2026, 2, 1)
                   /\ list[28] = Date(2026, 2, 28)

\* the lists returned for a December and for the February of a leap year
C16_Witness ==
    /\ MonthDaysReturned
    /\ \/ NamedMonth = 12 /\ Len(ret.value) = 31
       \/ NamedMonth = 2 /\ Len(ret.value) = 29

(***************************************************************************)
(* Properties of is_holiday.                                               *)
(***************************************************************************)
\* <<month, day>> of the nine fixed holidays
FixedHolidays ==
    {<<1, 1>>, <<1, 6>>, <<5, 1>>, <<5, 3>>, <<8, 15>>, <<11, 1>>, <<11, 11>>,
     <<12, 25>>, <<12, 26>>}

\* the offsets from Easter Sunday of the movable holidays
EasterOffsets == {0, 1, 49, 60}

\* Easter Sunday of some years, by the calendar: <<year, month, day>>
ReferenceEaster ==
    {<<2000, 4, 23>>, <<2008, 3, 23>>, <<2011, 4, 24>>, <<2019, 4, 21>>,
     <<2020, 4, 12>>, <<2021, 4, 4>>, <<2022, 4, 17>>, <<2023, 4, 9>>,
     <<2024, 3, 31>>, <<2025, 4, 20>>, <<2026, 4, 5>>, <<2027, 3, 28>>,
     <<2028, 4, 16>>, <<2029, 4, 1>>, <<2030, 4, 21>>, <<2038, 4, 25>>}

\* <<month, day>> of a date
MonthDayOf(day) ==
    LET ym == MonthOf(day) IN <<ym[2], day - Date(ym[1], ym[2], 1) + 1>>

HolidayAsStated(day) ==
    \/ MonthDayOf(day) \in FixedHolidays
    \/ \E k \in EasterOffsets : day = EasterSunday(YearOf(day)) + k

HolidayReturned == call.fn = "is_holiday" /\ ret.state = "returned"

EasterReturned == call.fn = "_easter_sunday" /\ ret.state = "returned"

\* C17: is_holiday(d) is true exactly for the nine fixed dates and for
\* Easter Sunday, Easter Sunday + 1, + 49 and + 60 days of the year of d;
\* Easter Sunday is a Sunday between March 22 and April 25 and agrees with
\* the calendar; in 2026 it is April 5, so 04-05, 04-06, 05-24 and 06-04 of
\* 2026 are holidays and 2026-01-02 is not.
C17_Holidays ==
    /\ HolidayReturned =>
        /\ ret.value <=> HolidayAsStated(call.args.day)
        /\ call.args.day \in {Date(2026, 4, 5), Date(2026, 4, 6), Date(2026, 5, 24),
                              Date(2026, 6, 4)} => ret.value
        /\ call.args.day = Date(2026, 1, 2) => ~ret.value
    /\ EasterReturned =>
        /\ Weekday(ret.value) = 6
        /\ Date(call.args.year, 3, 22) <= ret.value
        /\ ret.value <= Date(call.args.year, 4, 25)
        /\ \A r \in ReferenceEaster :
               r[1] = call.args.year => ret.value = Date(r[1], r[2], r[3])

\* Corpus Christi of 2026 is reported as a holiday
C17_Witness ==
    /\ HolidayReturned
    /\ call.args.day = Date(2026, 6, 4)
    /\ ret.value

(***************************************************************************)
(* Properties of the construction of an Employee.                          *)
(***************************************************************************)
EmployeeReturned == call.fn = "Employee" /\ ret.state = "returned"

EmployeeRaised == call.fn = "Employee" /\ ret.state = "raised"

EmployeeCalled == call.fn = "Employee" /\ ret.state # "pending"

\* the call gives AUTO as the monthly target
AutoGiven ==
    \/ call.args.auto_target
    \/ call.args.cel_godz_miesiac \in {Some(Str("AUTO")), Some(Str(" auto "))}

\* C18: the construction of an Employee with an AUTO monthly target is
\* rejected with a validation error unless the contract type is UOP and an
\* employment fraction is present; no Employee with auto_target and
\* contract type B2B or ZLECENIE exists.
C18_AutoTargetRejected ==
    /\ (EmployeeCalled /\ AutoGiven
            /\ ~(call.args.typ_umowy = "UOP" /\ call.args.etat # None)) => EmployeeRaised
    /\ EmployeeReturned =>
           ~(ret.value.auto_target /\ ret.value.typ_umowy \in {"B2B", "ZLECENIE"})

\* C19: every constructed Employee of group ELEKTRORADIOLOG has MR or TK in
\* its skills, a skill set disjoint from {MR, TK} being rejected with a
\* validation error; and every constructed UOP employee has an employment
\* fraction.
C19_ContractInvariants ==
    /\ EmployeeReturned =>
        /\ ret.value.grupa = ELEKTRORADIOLOG => ret.value.skills \cap {"MR", "TK"} # {}
        /\ ret.value.typ_umowy = "UOP" => ret.value.etat # None
    /\ (EmployeeCalled /\ call.args.grupa = Some(Member(ELEKTRORADIOLOG))
            /\ call.args.skills # None /\ call.args.skills[1] \cap {"MR", "TK"} = {})
           => EmployeeRaised

(***************************************************************************)
(* Properties of the balance penalties.                                    *)
(***************************************************************************)
\* whether a shift on the day of index d_idx counts for a metric
CountsFor(metric, shift, d_idx) ==
    IF metric = "night" THEN shift.end_time <= shift.start_time /\ ~shift.is_24h
    ELSE IF metric = "shift_24h" THEN shift.is_24h
    ELSE is_weekend(days[d_idx]) \/ is_holiday(days[d_idx])

\* count[e, metric] in the valuation x
MetricCount(e, metric, x) ==
    Cardinality({key \in x :
        /\ key[1] = e
        /\ ShiftByCode(shifts, key[3]).grupa = employees[e].grupa
        /\ CountsFor(metric, ShiftByCode(shifts, key[3]), key[2])})

GroupMembers(group) == {e \in DOMAIN employees : employees[e].grupa = group}

\* the sum of count[e, metric] over the members of a group
GroupTotal(group, metric, x) ==
    LET counts == SortedSeq(GroupMembers(group))
    IN  SeqSum([i \in DOMAIN counts |-> MetricCount(counts[i], metric, x)])

\* the weighted variables of the balance of a group and metric
BalanceTerms(group, metric) ==
    {i \in DOMAIN aux_vars :
        /\ aux_vars[i].weight # None
        /\ aux_vars[i].name.kind = "dev"
        /\ aux_vars[i].name.group = group
        /\ aux_vars[i].name.metric = metric}

\* the balance term of a group and metric is w_balance * sum over the members
\* e of |count[e, metric] * G - T|
BalanceTermAsStated(group, metric, x) ==
    LET G == Cardinality(GroupMembers(group))
        T == GroupTotal(group, metric, x)
    IN  /\ Cardinality(BalanceTerms(group, metric)) = G
        /\ \A e \in GroupMembers(group) : \E i \in BalanceTerms(group, metric) :
               /\ aux_vars[i].name.e_idx = e
               /\ aux_vars[i].weight = Some(DefaultSettings.wagi_miekkie.balance)
               /\ Value(aux_vars[i], x) = Abs(MetricCount(e, metric, x) * G - T)

\* the number of night assignments of the employee of index e in the result
NightAssignments(e) ==
    Cardinality({j \in DOMAIN result.assignments :
        /\ result.assignments[j].employee_id = employees[e].id
        /\ result.assignments[j].shift_code = P_N.code})

\* two nurses that differ in their id alone, and one night line a day
ScenarioS5 ==
    /\ employees \in TwinRosters
    /\ shifts = <<P_N>>
    /\ demands # <<>>

Unaccented(chars) ==
    LET folded == casefold(strip(chars))
    IN  [i \in DOMAIN folded |-> IF folded[i] = "e_ogonek" THEN "e" ELSE folded[i]]

RadiographerLabels == {ELEKTRORADIOLOG_TEXT, ER_TEXT}

NurseLabels == {PIELEGNIARKA_TEXT, PIEL_TEXT, ZDO_TEXT}

LabelCalled ==
    /\ call.fn = "normalize_group"
    /\ ret.state # "pending"
    /\ call.args.value # None
    /\ call.args.value[1].kind = "str"

\* C21: normalize_group maps, whatever the case and the accents, the labels
\* elektroradiolog and er to ELEKTRORADIOLOG and the labels pielegniarka,
\* piel and zdo to PIELEGNIARKA, and rejects every other label with an
\* error.
C21_GroupLabels ==
    LabelCalled =>
        LET label == Unaccented(call.args.value[1].chars)
        IN  IF label \in RadiographerLabels
            THEN ret = Returned(ELEKTRORADIOLOG)
            ELSE IF label \in NurseLabels
            THEN ret = Returned(PIELEGNIARKA)
            ELSE ret.state = "raised"

(***************************************************************************)
(* Properties of the rest rule after a 24-h shift.                         *)
(***************************************************************************)
\* the pairs <<employee, day index, shift a, shift b>> with a variable for a on
\* the day and for b on the next day of the horizon
RestPairs ==
    {t \in (DOMAIN employees) \X (1..(Len(days) - 1)) \X (DOMAIN shifts) \X (DOMAIN shifts) :
        /\ <<t[1], t[2], shifts[t[3]].code>> \in variables
        /\ <<t[1], t[2] + 1, shifts[t[4]].code>> \in variables}

\* the gap between a on its day and b on the next day of the horizon, a 24-h
\* shift with equal start and end ending 24 hours after its start
StatedGap(t) ==
    (days[t[2] + 1] * MinutesPerDay + shifts[t[4]].start_time)
        - StatedShiftEnd(days[t[2]], shifts[t[3]])

\* C22: a 24-h shift with equal start and end time on day d ends, for the rest
\* rule, at its start time on day d plus 24 hours; so the rule adds
\* x[e,d,s_a] + x[e,d+1,s_b] <= 1 exactly when the gap is below 11 hours, and a
\* shift of the next day that starts at least 11 hours after the start time of
\* the 24-h shift is not excluded.
C22_RestAfter24h ==
    pc = "built" =>
        \A t \in RestPairs :
            (AtMost({<<t[1], t[2], shifts[t[3]].code>>,
                     <<t[1], t[2] + 1, shifts[t[4]].code>>}, 1) \in constraints)
                <=> (StatedGap(t) < 11 * MINUTES_PER_HOUR)

(***************************************************************************)
(* Properties of the weekly 48-hour penalties.                             *)
(***************************************************************************)
\* the Monday of the week of a date
MondayOf(day) == day - Weekday(day)

\* the variables of employee e
VariablesOf(e) == {key \in variables : key[1] = e}

\* the weeks, by their Monday, with a horizon day on which e has a variable
WeeksOf(e) == {MondayOf(days[key[2]]) : key \in VariablesOf(e)}

\* the auxiliary variables of the weekly limit of employee e
WeeklyVars(e) ==
    {i \in DOMAIN aux_vars :
        /\ aux_vars[i].name.kind \in {"week_minutes", "week_diff", "week_excess"}
        /\ aux_vars[i].name.e_idx = e}

\* the penalty terms of the weekly limit of employee e
WeeklyTerms(e) == {i \in WeeklyVars(e) : aux_vars[i].weight # None}

\* the minutes of e in the valuation x on the horizon days of the week of monday
WeekMinutes(e, monday, x) ==
    SeqSum([s \in DOMAIN shifts |->
        _shift_minutes(shifts[s]) *
            Cardinality({key \in x \cap VariablesOf(e) :
                /\ key[3] = shifts[s].code
                /\ MondayOf(days[key[2]]) = monday})])

\* valuations to compare the terms on: nothing, everything, and the
\* variables of e of one week, of one day and of one shift
TestValuations(e) ==
    {{}, VariablesOf(e)}
        \cup {{key \in VariablesOf(e) : MondayOf(days[key[2]]) = monday} : monday \in WeeksOf(e)}
        \cup {{key \in VariablesOf(e) : key[2] = d} : d \in DOMAIN days}
        \cup {{key \in VariablesOf(e) : key[3] = shifts[s].code} : s \in DOMAIN shifts}

\* C23: weekly 48-hour penalty terms exist only for B2B and ZLECENIE
\* employees; such an employee has one term per ISO week holding a horizon
\* day with an eligible shift, equal to w_weekly_48h * max(0, minutes worked
\* on the horizon days of that week - 2880), every horizon day counting in
\* exactly one week.
C23_WeeklyTerms ==
    pc = "built" =>
        \A e \in DOMAIN employees :
            IF employees[e].typ_umowy \notin {"B2B", "ZLECENIE"} THEN WeeklyVars(e) = {}
            ELSE /\ Cardinality(WeeklyTerms(e)) = Cardinality(WeeksOf(e))
                 /\ \A i \in WeeklyTerms(e) :
                        aux_vars[i].weight =
                            Some(_get_weight(IF settings = None THEN DefaultSettings
                                             ELSE settings[1], "weekly_48h", 500))
                 /\ \A monday \in WeeksOf(e) : \E i \in WeeklyTerms(e) :
                        \A x \in TestValuations(e) :
                            Value(aux_vars[i], x) = Max0(WeekMinutes(e, monday, x) - 2880)
                 /\ \A x \in TestValuations(e) :
                        SeqSum([s \in DOMAIN shifts |->
                            _shift_minutes(shifts[s]) *
                                Cardinality({key \in x : key[3] = shifts[s].code})])
                        = SeqSum([w \in DOMAIN SortedSeq(WeeksOf(e)) |->
                              WeekMinutes(e, SortedSeq(WeeksOf(e))[w], x)])

\* the model of the month with a contractor whose variables span five weeks,
\* one of them with more than 48 hours of eligible shifts
C23_Witness ==
    /\ pc = "built"
    /\ \E e \in DOMAIN employees :
        /\ employees[e].typ_umowy = "B2B"
        /\ Cardinality(WeeksOf(e)) = 5
        /\ \E i \in WeeklyTerms(e) : Value(aux_vars[i], VariablesOf(e)) > 0
        /\ \E i \in WeeklyTerms(e) : Value(aux_vars[i], VariablesOf(e)) = 0

(***************************************************************************)
(* The soft constraints and feasibility.                                   *)
(***************************************************************************)
\* the valuations that satisfy the hard constraints of the model built
HardSolutions == Solutions(Len(days), variables, constraints)

\* the valuations that extend to a solution of the model with the soft part
FullSolutions == ModelSolutions(Len(days), variables, constraints, aux_vars)

\* C24: the soft constraints never change feasibility: the model with the
\* soft penalties and their auxiliary variables has a solution exactly when
\* the hard constraints alone have one, and every assignment that satisfies
\* the hard constraints extends to a solution of the full model.
C24_SoftKeepsFeasibility ==
    pc = "built" =>
        /\ (FullSolutions # {}) <=> (HardSolutions # {})
        /\ HardSolutions \subseteq FullSolutions

(***************************************************************************)
(* The emitted assignments and the variables valued 1.                     *)
(***************************************************************************)
\* the assignment of a decision variable
AssignmentOfKey(key) ==
    Assignment(days[key[2]], key[3], employees[key[1]].id, employees[key[1]].name)

\* the minutes of the emitted assignments of the employee of index e
EmittedMinutes(e) ==
    SeqSum([j \in DOMAIN result.assignments |->
        IF result.assignments[j].employee_id = employees[e].id
        THEN _shift_minutes(ShiftByCode(shifts, result.assignments[j].shift_code))
        ELSE 0])

\* minutes[e]: the value of total_minutes of employee e in the solution
MinutesAggregate(e) ==
    Value(aux_vars[CHOOSE i \in DOMAIN aux_vars :
                       aux_vars[i].name = VarName("minutes", "", "", e, 0)], solution)

\* C25: in every feasible result every decision variable valued 1 is emitted
\* as an Assignment, also for a shift without a demand line on its day, so
\* that the durations of the assignments of every employee add up to the
\* minutes[e] the model was evaluated on.
C25_AllValuedOneEmitted ==
    FeasibleDone =>
        /\ \A key \in solution : \E j \in DOMAIN result.assignments :
               result.assignments[j] = AssignmentOfKey(key)
        /\ demands # <<>> =>
               \A e \in DOMAIN employees : EmittedMinutes(e) = MinutesAggregate(e)
====
